---- MODULE Spec2Model ----
(***************************************************************************)
(* Differential rule attribution of sandbox log entries                    *)
(* (macos-sandbox-coverage, matching-core).                                *)
(*                                                                         *)
(* Two drivers share one shrink algorithm:                                 *)
(*   - the matcher   (match_rules.cpp), whose worker asks the kernel with  *)
(*     sandbox_check, and                                                  *)
(*   - the rematcher (rematch_inconsistent.cpp), whose worker performs the *)
(*     operation with the active probes of sandbox_utils.                  *)
(*                                                                         *)
(* The parent process and its forked worker are modelled step by step: the *)
(* parent pre-fills the shared buffer and forks, the worker installs the   *)
(* policy and probes the events in order, the parent waits and copies the  *)
(* buffer out.                                                             *)
(*                                                                         *)
(* The kernel is the environment.  Its decision procedure is the one the   *)
(* design states: the last rule of the installed policy that applies to a  *)
(* query decides it, and the kernel's built-in default for the operation   *)
(* decides when no rule applies.                                           *)
(***************************************************************************)
EXTENDS Integers, Sequences, FiniteSets, TLC

VARIABLES
    driver,          \* "matcher" | "rematcher": which program runs
    profile,         \* the rule set P read from ruleset.json
    inputs,          \* the events E handed to sandbox_bulk_find_matching_rule
    log,             \* the event list read from the log file
    match_results,   \* rematcher: the earlier results read from argv[3]
    sem,             \* environment: does the named POSIX semaphore exist
    envFault,        \* environment: a worker was killed or could not install
    runNo,           \* 1 for the first run of the program, 2 for the second
    firstResult,     \* what the first run printed (or that it crashed)
    pc,              \* position of the parent process
    phase,           \* which batch oracle call is in progress
    wprofile,        \* the policy handed to the batch oracle call
    callok,          \* the bool the last batch oracle call returned
    decisions,       \* local of sandbox_check_bulk_baseline_consistency
    consistent,      \* per-event status array (NULL when the call failed)
    baselines,       \* decisions on the unmodified policy
    matching_rules,  \* tentative attribution per event
    current_profile, \* the working set W of the shrink loop
    rule_index,      \* index recorded for the rule removed last
    last_results,    \* decisions of the current shrink iteration
    temp,            \* the shared result buffer (static, mmap'ed)
    worker,          \* the forked worker: state and event position
    raw,             \* what the evaluator got for each event of the current call
    stray,           \* a child forked by the signal probe that was not killed
    shm,             \* system: the named shared memory object exists
    tool,            \* consistency tool: the locals of main's loop
    call,            \* a call of a helper function: arguments and result
    psem,            \* system: the semaphore's value, the caller's open handles
    output           \* the JSON array printed by main

vars == << driver, psem, shm, tool, call, profile, inputs, log, match_results, sem,
           envFault, runNo, firstResult, pc, phase, wprofile, callok, decisions, consistent,
           baselines, matching_rules, current_profile, rule_index,
           last_results, temp, worker, raw, stray, output >>

-----------------------------------------------------------------------------
(* Bounds of the model *)

MaxRules == 3
MaxEvents == 2

-----------------------------------------------------------------------------
(* Program constants *)

\* #define RULE_UNMATCHED (~0): all ones; -1 in two's complement.
RULE_UNMATCHED == -1
\* memset(temp, 2, map_size): the byte no decision uses.
SENTINEL == 2
\* memset(last_results, 0x2, ...) on an int array: every int is 0x02020202.
LAST_RESULTS_FILL == 33686018
\* enum sandbox_match_status
SANDBOX_INCONSISTENT == 0
SANDBOX_CONSISTENT == 1
SANDBOX_EXTERNAL == 2
\* enum decision (decision.h)
DECISION_ALLOW == 0
DECISION_DENY == 1
DECISION_UNKNOWN == 3
DECISION_ERROR == 4
PLACEHOLDER_INDEX == 777777

NULL == << >>

-----------------------------------------------------------------------------
(* Small helpers *)

Contains(s, x) == \E k \in 1..Len(s) : s[k] = x

Max(S) == CHOOSE x \in S : \A y \in S : y <= x

Min(S) == CHOOSE x \in S : \A y \in S : x <= y

SeqsUpTo(S, n) == UNION { [1..k -> S] : k \in 1..n }

-----------------------------------------------------------------------------
(* The kernel sandbox (environment) *)

\* Operations the kernel knows; any other name makes sandbox_check fail.
KernelOps ==
    { "file-read-data", "file-map-executable", "process-fork",
      "ipc-posix-sem-create", "ipc-posix-sem-open", "ipc-posix-sem-unlink",
      "signal", "mach-register", "ipc-posix-shm-read-data",
      "ipc-posix-shm-write-create", "ipc-posix-shm-write-data",
      "ipc-posix-shm-write-unlink", "ipc-posix-sem-post",
      "ipc-posix-sem-wait" }

\* Operations the kernel allows when no rule applies.
DefaultAllowOps == { "file-map-executable" }

KernelDefault(op) == IF op \in DefaultAllowOps THEN 0 ELSE 1

\* The category of the resource an operation is really checked against.
ResourceCategory(op) ==
    IF op \in { "file-read-data", "file-map-executable" } THEN "path"
    ELSE IF op \in { "ipc-posix-sem-create", "ipc-posix-sem-open",
                     "ipc-posix-sem-unlink", "ipc-posix-shm-read-data",
                     "ipc-posix-shm-write-create", "ipc-posix-shm-write-data",
                     "ipc-posix-shm-write-unlink", "ipc-posix-sem-post",
                     "ipc-posix-sem-wait" } THEN "ipc-posix-name"
    ELSE IF op = "mach-register" THEN "global-name"
    ELSE "none"

\* A rule applies to a query when it names the operation (or default) and
\* has no filter or a filter of the queried category on the queried value.
RuleApplies(r, op, cat, arg) ==
    /\ Contains(r.operations, op) \/ Contains(r.operations, "default")
    /\ r.filter = << >> \/ r.filter = << cat, arg >>

\* The kernel's decision under policy W: 0 allow, 1 deny.
KernelDecision(W, op, cat, arg) ==
    LET hits == { k \in 1..Len(W) : RuleApplies(W[k], op, cat, arg) }
    IN  IF hits = {} THEN KernelDefault(op)
        ELSE IF W[Max(hits)].action = "allow" THEN 0 ELSE 1

\* int sandbox_check(pid, operation, type, ...): 0, 1, or -1 on failure.
sandbox_check(W, op, cat, arg) ==
    IF op \notin KernelOps THEN -1 ELSE KernelDecision(W, op, cat, arg)

-----------------------------------------------------------------------------
(* ruleset helpers *)

HasDefaultOp(r) == Contains(r.operations, "default")

\* Faulty variant: the first rule is taken for the default rule.
get_default_first_rule(rulebase) == << rulebase[1] >>

\* ruleset::get_default: the first rule with a "default" operation, or null.
get_default(rulebase) ==
    LET ds == { k \in 1..Len(rulebase) : HasDefaultOp(rulebase[k]) }
    IN  IF ds = {} THEN NULL ELSE << rulebase[Min(ds)] >>

\* Faulty variant: reports the size of the rule base as the removed index.
remove_last_rule_size_as_index(rulebase) ==
    [ result |-> SubSeq(rulebase, 1, Len(rulebase) - 1),
      last_rule_idx |-> Len(rulebase),
      last_rule |-> rulebase[Len(rulebase)] ]

\* Faulty variant: the copy stops one rule too early.
remove_last_rule_short_copy(rulebase) ==
    [ result |-> SubSeq(rulebase, 1, Len(rulebase) - 2),
      last_rule_idx |-> Len(rulebase) - 1,
      last_rule |-> rulebase[Len(rulebase)] ]

\* ruleset::remove_last_rule: (result, *last_rule_idx, *last_rule).
remove_last_rule(rulebase) ==
    [ result |-> SubSeq(rulebase, 1, Len(rulebase) - 1),
      last_rule_idx |-> Len(rulebase) - 1,
      last_rule |-> rulebase[Len(rulebase)] ]

\* ruleset::index_for_rule: the first index whose rule equals `rule`.
index_for_rule(rulebase, rule) ==
    Min({ k \in 1..Len(rulebase) : rulebase[k] = rule }) - 1

-----------------------------------------------------------------------------
(* The matcher's per-event evaluator *)

FileOps == { "file-read-data", "file-map-executable" }

NineFilters ==
    { "path", "global-name", "local-name", "appleevent-destination",
      "right-name", "preference-domain", "kext-bundle-id", "info-type",
      "notification" }

\* sandbox_filter_type_for_op (match_rules.cpp)
sandbox_filter_type_for_op(operation) ==
    IF operation \in FileOps THEN "path"
    ELSE IF operation = "mach-register" THEN "global-name"
    ELSE "unknown"

\* sandbox_check_custom (match_rules.cpp): the raw sandbox_check value, or
\* for an unknown filter type 0 if some category allows and 1 otherwise.
sandbox_check_custom(W, input) ==
    LET operation == input.operation
        argument == input.argument
        filter_type == sandbox_filter_type_for_op(operation)
    IN  IF argument # ""
        THEN IF filter_type = "unknown"
             THEN IF \E f \in NineFilters :
                         sandbox_check(W, operation, f, argument) = 0
                  THEN 0 ELSE 1
             ELSE sandbox_check(W, operation, filter_type, argument)
        ELSE sandbox_check(W, operation, "none", "")

-----------------------------------------------------------------------------
(* The rematcher's per-event evaluator: active probes (sandbox_utils)      *)
(*                                                                         *)
(* The system holds at most one named POSIX semaphore; s tells whether it  *)
(* exists.  A system call on a name that does not exist fails with ENOENT  *)
(* before the sandbox is consulted; otherwise the sandbox decides.         *)

SemAllowed(W, op, name) == KernelDecision(W, op, "ipc-posix-name", name) = 0

\* sem_open(name, 0)
sys_sem_open(W, name, s) ==
    IF ~s THEN "ENOENT"
    ELSE IF SemAllowed(W, "ipc-posix-sem-open", name) THEN "ok" ELSE "EPERM"

\* sem_unlink(name)
sys_sem_unlink(W, name, s) ==
    IF ~s THEN "ENOENT"
    ELSE IF SemAllowed(W, "ipc-posix-sem-unlink", name) THEN "ok" ELSE "EPERM"

\* sem_open(name, O_CREAT, 0777, 1)
sys_sem_create(W, name, s) ==
    IF s THEN sys_sem_open(W, name, s)
    ELSE IF SemAllowed(W, "ipc-posix-sem-create", name) THEN "ok" ELSE "EPERM"

\* posix_sem.c lines 26-36: the creating sem_open and what follows it
sem_create_tail(W, name, s) ==
    LET c == sys_sem_create(W, name, s)
    IN  IF c = "ok" THEN [ decision |-> 0, sem |-> TRUE ]
        ELSE IF c = "EPERM" THEN [ decision |-> DECISION_DENY, sem |-> s ]
        ELSE [ decision |-> DECISION_ERROR, sem |-> s ]

\* Faulty variant: a semaphore that cannot be opened is taken to be absent.
sandbox_check_sem_create_guess(W, name, s) ==
    LET o == sys_sem_open(W, name, s)
    IN  IF o = "ok"
        THEN IF sys_sem_unlink(W, name, s) # "ok"
             THEN [ decision |-> DECISION_ERROR, sem |-> s ]
             ELSE sem_create_tail(W, name, FALSE)
        ELSE sem_create_tail(W, name, s)

\* sandbox_check_sem_create (posix_sem.c)
sandbox_check_sem_create(W, name, s) ==
    LET o == sys_sem_open(W, name, s)
    IN  IF o = "ok"
        THEN IF sys_sem_unlink(W, name, s) # "ok"
             THEN [ decision |-> DECISION_ERROR, sem |-> s ]
             ELSE sem_create_tail(W, name, FALSE)
        ELSE IF o = "EPERM"
        THEN [ decision |-> DECISION_ERROR, sem |-> s ]
        ELSE sem_create_tail(W, name, s)

\* sandbox_check_sem_open (posix_sem.c): a stub
sandbox_check_sem_open(W, name, s) == [ decision |-> DECISION_ERROR, sem |-> s ]

\* sandbox_check_sem_unlink (posix_sem.c)
sandbox_check_sem_unlink(W, name, s) ==
    LET u == sys_sem_unlink(W, name, s)
    IN  IF u = "ok" THEN [ decision |-> DECISION_ALLOW, sem |-> FALSE ]
        ELSE IF u = "EPERM" THEN [ decision |-> DECISION_DENY, sem |-> s ]
        ELSE [ decision |-> DECISION_ERROR, sem |-> s ]

\* fork_allowed (signal.c)
fork_allowed(W) == sandbox_check(W, "process-fork", "none", "") = 0

\* kill(pid, SIGKILL) on the child just forked: 0, or -1 when the policy of
\* the caller denies the signal.
sys_kill_child(W) == IF KernelDecision(W, "signal", "none", "") = 0 THEN 0 ELSE -1

\* sandbox_check_signal (signal.c): fork a child and try to kill it.  The
\* child sleeps and then returns -1 to the caller of the probe; spawn tells
\* whether the child outlives the probe.
sandbox_check_signal(W) ==
    IF ~fork_allowed(W)
    THEN [ decision |-> -1, spawn |-> FALSE ]
    ELSE LET success == sys_kill_child(W)
         IN  [ decision |-> IF success # 0 THEN 1 ELSE 0,
               spawn |-> success # 0 ]

\* sandbox_check_mach_register (mach.c)
sandbox_check_mach_register(W, argument) ==
    LET rv == sandbox_check(W, "mach-register", "global-name", argument)
    IN  IF ~(rv = 0 \/ rv = 1) THEN DECISION_ERROR
        ELSE IF rv = 0 THEN DECISION_ALLOW ELSE DECISION_DENY

\* The operation column of the check_functions table (sandbox_utils.c).
check_functions ==
    { "file-issue-extension", "ipc-posix-shm-write-create",
      "ipc-posix-shm-write-data", "ipc-posix-shm-write-unlink",
      "ipc-posix-shm-read-data", "ipc-posix-shm-read-metadata",
      "ipc-posix-sem-create", "ipc-posix-sem-open", "ipc-posix-sem-post",
      "ipc-posix-sem-wait", "ipc-posix-sem-unlink", "nvram-get",
      "process-info-dirtycontrol", "process-info-setcontrol",
      "process-info-pidinfo", "signal", "iokit-open", "mach-register" }

\* A probe that leaves no process behind.
NoSpawn(r) == [ decision |-> r.decision, sem |-> r.sem, spawn |-> FALSE ]

\* sandbox_check_perform (sandbox_utils.c): dispatch on the operation name,
\* -1 when the table has no probe for it.  Of the probes in the table the
\* events of the model name the semaphore probes, the signal probe and the
\* mach-register probe.
sandbox_check_perform(W, operation, argument, s) ==
    IF operation \notin check_functions
    THEN [ decision |-> -1, sem |-> s, spawn |-> FALSE ]
    ELSE IF operation = "ipc-posix-sem-create"
    THEN NoSpawn(sandbox_check_sem_create(W, argument, s))
    ELSE IF operation = "ipc-posix-sem-unlink"
    THEN NoSpawn(sandbox_check_sem_unlink(W, argument, s))
    ELSE IF operation = "signal"
    THEN LET r == sandbox_check_signal(W)
         IN  [ decision |-> r.decision, sem |-> s, spawn |-> r.spawn ]
    ELSE IF operation = "mach-register"
    THEN [ decision |-> sandbox_check_mach_register(W, argument), sem |-> s,
           spawn |-> FALSE ]
    ELSE NoSpawn(sandbox_check_sem_open(W, argument, s))

\* sandbox_recheck_custom (rematch_inconsistent.cpp): any status other than
\* 0 becomes 1.  The status itself is kept in the field of that name.
sandbox_recheck_custom(W, input, s) ==
    LET r == sandbox_check_perform(W, input.operation, input.argument, s)
    IN  [ decision |-> IF r.decision # 0 THEN 1 ELSE 0, sem |-> r.sem,
          status |-> r.decision, spawn |-> r.spawn ]

-----------------------------------------------------------------------------
(* Parent-side computations of sandbox_bulk_find_matching_rule *)

M == Len(inputs)

Events == 1..Len(inputs)

\* Faulty variant: every event is taken to agree with the policy.
BaselineConsistency_always(dec, ins) ==
    [ i \in 1..Len(ins) |-> SANDBOX_CONSISTENT ]

\* sandbox_check_bulk_baseline_consistency, lines 620-628
BaselineConsistency(dec, ins) ==
    [ i \in 1..Len(ins) |->
        IF ins[i].action = "allow" /\ dec[i] = 0 THEN SANDBOX_CONSISTENT
        ELSE IF ins[i].action = "deny" /\ dec[i] = 1 THEN SANDBOX_CONSISTENT
        ELSE SANDBOX_INCONSISTENT ]

\* Faulty variant: a later iteration overwrites an attribution already made.
ShrinkCompare_overwrite(cons, match, last, base, idx) ==
    [ i \in 1..Len(match) |->
        IF cons[i] # SANDBOX_CONSISTENT THEN match[i]
        ELSE IF last[i] # base[i] THEN idx
        ELSE match[i] ]

\* Faulty variant: attributes when the decision did not change.
ShrinkCompare_unchanged(cons, match, last, base, idx) ==
    [ i \in 1..Len(match) |->
        IF cons[i] # SANDBOX_CONSISTENT THEN match[i]
        ELSE IF match[i] = RULE_UNMATCHED /\ last[i] = base[i] THEN idx
        ELSE match[i] ]

\* the for loop of the shrink iteration, lines 670-680
ShrinkCompare(cons, match, last, base, idx) ==
    [ i \in 1..Len(match) |->
        IF cons[i] # SANDBOX_CONSISTENT THEN match[i]
        ELSE IF match[i] = RULE_UNMATCHED /\ last[i] # base[i] THEN idx
        ELSE match[i] ]

\* Faulty variant: the fix-up loop stops after the first event.
FixupMatches_first_only(P, ins, cons, match) ==
    LET d == get_default(P)
    IN  [ i \in 1..Len(match) |->
            IF i = 1 /\ cons[i] = SANDBOX_CONSISTENT /\ match[i] = RULE_UNMATCHED
               /\ d # NULL /\ d[1].action = "deny" /\ ins[i].action = "deny"
            THEN index_for_rule(P, d[1])
            ELSE match[i] ]

\* the default-deny fix-up of the matcher, lines 692-711: new match array
FixupMatches(P, ins, cons, match) ==
    LET d == get_default(P)
    IN  [ i \in 1..Len(match) |->
            IF cons[i] = SANDBOX_CONSISTENT /\ match[i] = RULE_UNMATCHED
               /\ d # NULL /\ d[1].action = "deny" /\ ins[i].action = "deny"
            THEN index_for_rule(P, d[1])
            ELSE match[i] ]

\* Faulty variant: unexplained events keep the consistent status.
FixupStatus_keep(P, ins, cons, match) == cons

\* the default-deny fix-up of the matcher, lines 692-711: new status array
FixupStatus(P, ins, cons, match) ==
    LET d == get_default(P)
    IN  [ i \in 1..Len(match) |->
            IF cons[i] = SANDBOX_CONSISTENT /\ match[i] = RULE_UNMATCHED
               /\ ~(d # NULL /\ d[1].action = "deny" /\ ins[i].action = "deny")
            THEN SANDBOX_EXTERNAL
            ELSE cons[i] ]

\* main, lines 767-780: one element [i, x] per event
EmitResult(cons, match) ==
    [ i \in 1..Len(cons) |->
        IF cons[i] = SANDBOX_CONSISTENT
        THEN [ idx |-> i - 1, kind |-> "rule", rule |-> match[i] ]
        ELSE IF cons[i] = SANDBOX_EXTERNAL
        THEN [ idx |-> i - 1, kind |-> "external", rule |-> RULE_UNMATCHED ]
        ELSE [ idx |-> i - 1, kind |-> "inconsistent", rule |-> RULE_UNMATCHED ] ]

-----------------------------------------------------------------------------
(* Inputs *)

NoFilter == << >>

RuleDD == [ action |-> "deny", operations |-> << "default" >>, filter |-> NoFilter ]
RuleAD == [ action |-> "allow", operations |-> << "default" >>, filter |-> NoFilter ]
RuleAR == [ action |-> "allow", operations |-> << "file-read-data", "file-map-executable" >>,
            filter |-> << "path", "/a" >> ]
RuleDR == [ action |-> "deny", operations |-> << "file-read-data", "file-map-executable" >>,
            filter |-> << "path", "/a" >> ]

MatcherRules == { RuleDD, RuleAD, RuleAR, RuleDR }

Ev(op, arg, act) == [ operation |-> op, argument |-> arg, action |-> act ]

MatcherEvents ==
    { Ev("file-read-data", "/a", "allow"), Ev("file-read-data", "/a", "deny"),
      Ev("file-map-executable", "/a", "allow"),
      Ev("ipc-posix-sem-open", "n", "deny"),
      Ev("process-fork", "", "deny"),
      Ev("bogus-operation", "", "allow") }

\* installs counts the policies the worker has installed on itself, policy
\* is the rule set its sandbox enforces (none before the installation).
NoWorker == [ st |-> "none", i |-> 0, installs |-> 0, policy |-> << >> ]

\* The consistency tool is not running; no helper call is pending.
NoTool == [ matches |-> << >>, decision |-> << >>,
            performed_decision |-> << >>, queries |-> << >> ]

NoCall ==
    [ fn |-> "none", rulebase |-> << >>, action |-> "", again |-> FALSE,
      aborted |-> FALSE, result |-> << >>, last_rule_idx |-> 0,
      last_rule |-> << >>, table |-> << >>, op |-> 0, name |-> "",
      existed |-> FALSE, decision |-> SENTINEL, fault |-> "none",
      primed |-> FALSE, was_primed |-> FALSE ]

\* No semaphore handle is open; the value is that of a new semaphore.
NoPsem == [ value |-> 0, handles |-> 0 ]

NoStray == [ st |-> "none", i |-> 0, W |-> << >>, run |-> 0 ]

\* The memory of a process that has not yet run (or is gone).
FreshProcess ==
    /\ phase = "none"
    /\ wprofile = << >>
    /\ callok = FALSE
    /\ decisions = << >>
    /\ consistent = NULL
    /\ baselines = << >>
    /\ matching_rules = << >>
    /\ current_profile = << >>
    /\ rule_index = 0
    /\ last_results = << >>
    /\ temp = << >>
    /\ worker = NoWorker
    /\ raw = << >>
    /\ tool = NoTool
    /\ call = NoCall
    /\ psem = NoPsem
    /\ output = << >>

Init ==
    /\ driver = "matcher"
    /\ profile \in SeqsUpTo(MatcherRules, MaxRules)
    /\ inputs \in SeqsUpTo(MatcherEvents, MaxEvents)
    /\ log = inputs
    /\ match_results = << >>
    /\ stray = NoStray
    /\ shm = FALSE
    /\ sem = FALSE
    /\ envFault = FALSE
    /\ runNo = 1
    /\ firstResult = << >>
    /\ pc = "main"
    /\ FreshProcess

-----------------------------------------------------------------------------
(* The process dies: its memory is gone, nothing is printed. *)

Crashed ==
    /\ pc' = "crashed"
    /\ phase' = "none"
    /\ wprofile' = << >>
    /\ callok' = FALSE
    /\ decisions' = << >>
    /\ consistent' = NULL
    /\ baselines' = << >>
    /\ matching_rules' = << >>
    /\ current_profile' = << >>
    /\ rule_index' = 0
    /\ last_results' = << >>
    /\ temp' = << >>
    /\ worker' = NoWorker
    /\ raw' = << >>
    /\ output' = << >>

-----------------------------------------------------------------------------
(* Parent: main calls sandbox_bulk_find_matching_rule, which first calls   *)
(* sandbox_check_bulk_baseline_consistency.                                *)

StartRun ==
    /\ pc = "main"
    /\ pc' = "fork"
    /\ phase' = "consistency"
    /\ wprofile' = profile
    /\ UNCHANGED << psem, shm, tool, call, driver, profile, inputs, log, match_results, stray, sem,
                    envFault, runNo, firstResult, callok, decisions,
                    consistent, baselines, matching_rules, current_profile,
                    rule_index, last_results, temp, raw, worker, output >>

\* Faulty variant: the buffer is filled only when it is first mapped.
Prefill_once(buffer, n) ==
    IF buffer = << >> THEN [ i \in 1..n |-> SENTINEL ] ELSE buffer

\* memset(temp, 2, map_size) of sandbox_check_bulk_for_profile
Prefill(buffer, n) == [ i \in 1..n |-> SENTINEL ]

\* sandbox_check_bulk_for_profile up to fork(): pre-fill, then fork.
Fork ==
    /\ pc = "fork"
    /\ temp' = Prefill(temp, M)
    /\ worker' = [ st |-> "install", i |-> 1, installs |-> 0, policy |-> << >> ]
    /\ raw' = << >>
    /\ pc' = "wait"
    /\ UNCHANGED << psem, shm, tool, call, driver, profile, inputs, log, match_results, stray, sem,
                    envFault, runNo, firstResult, phase, wprofile, callok,
                    decisions, consistent, baselines, matching_rules,
                    current_profile, rule_index, last_results, output >>

-----------------------------------------------------------------------------
(* Worker *)

WorkerFrame ==
    UNCHANGED << psem, shm, tool, call, driver, profile, inputs, log, match_results, runNo,
                 firstResult, pc, phase, wprofile, callok, decisions,
                 consistent, baselines, matching_rules, current_profile,
                 rule_index, last_results, output >>

\* Faulty variant: the worker enters its loop without installing the policy.
WorkerInstall_skipped ==
    /\ worker.st = "install"
    /\ worker' = [ worker EXCEPT !.st = "probe" ]
    /\ UNCHANGED << sem, envFault, temp, raw, stray >>
    /\ WorkerFrame

\* sandbox_initialize(profile) succeeds: the worker is confined by the
\* profile the call was given.
WorkerInstall ==
    /\ worker.st = "install"
    /\ worker' = [ worker EXCEPT !.st = "probe",
                                 !.installs = worker.installs + 1,
                                 !.policy = wprofile ]
    /\ UNCHANGED << sem, envFault, temp, raw, stray >>
    /\ WorkerFrame

\* sandbox_initialize(profile) fails: exit(1).
WorkerInstallFail ==
    /\ worker.st = "install"
    /\ worker' = [ worker EXCEPT !.st = "exit1" ]
    /\ envFault' = TRUE
    /\ UNCHANGED << sem, temp, raw, stray >>
    /\ WorkerFrame

\* The decision of the matcher's worker for one event.
WorkerDecision(W, input) == sandbox_check_custom(W, input)

\* What the worker's evaluator returns and what it leaves behind in the
\* system: the matcher only asks, the rematcher performs the operation.
Evaluate(W, input, s) ==
    IF driver = "matcher"
    THEN LET d == WorkerDecision(W, input)
         IN  [ decision |-> d, sem |-> s, status |-> d, spawn |-> FALSE ]
    ELSE sandbox_recheck_custom(W, input, s)

\* One iteration of the worker's loop: evaluate, assert 0 or 1, store.
WorkerProbe ==
    /\ worker.st = "probe"
    /\ worker.i <= M
    /\ LET r == Evaluate(worker.policy, inputs[worker.i], sem)
       IN  /\ sem' = r.sem
           /\ raw' = Append(raw, r.status)
           /\ stray' = IF r.spawn /\ stray.st = "none"
                       THEN [ st |-> "asleep", i |-> worker.i,
                              W |-> worker.policy,
                              run |-> runNo ]
                       ELSE stray
           /\ IF r.decision = 0 \/ r.decision = 1
              THEN /\ temp' = [ temp EXCEPT ![worker.i] = r.decision ]
                   /\ worker' = [ worker EXCEPT !.i = worker.i + 1 ]
              ELSE /\ temp' = temp
                   /\ worker' = [ worker EXCEPT !.st = "signaled" ]
    /\ UNCHANGED envFault
    /\ WorkerFrame

\* exit(0) after the loop.
WorkerExit ==
    /\ worker.st = "probe"
    /\ worker.i > M
    /\ worker' = [ worker EXCEPT !.st = "exit0" ]
    /\ UNCHANGED << sem, envFault, temp, raw, stray >>
    /\ WorkerFrame

\* The environment kills the worker.
WorkerKilled ==
    /\ worker.st \in { "install", "probe" }
    /\ worker' = [ worker EXCEPT !.st = "signaled" ]
    /\ envFault' = TRUE
    /\ UNCHANGED << sem, temp, raw, stray >>
    /\ WorkerFrame

-----------------------------------------------------------------------------
(* Parent: waitpid returns *)

\* for (i...) results[i] = temp[i];
CopyOut(buffer, n) == [ i \in 1..n |-> buffer[i] ]

\* Faulty variant: the parent does not block in waitpid; it copies the
\* buffer and goes on while the worker may still be running.
WaitReturn_nowait ==
    /\ pc = "wait"
    /\ worker.st # "none"
    /\ pc' = "ret"
    /\ callok' = TRUE
    /\ decisions' = IF phase = "consistency" THEN CopyOut(temp, M) ELSE decisions
    /\ baselines' = IF phase = "baseline" THEN CopyOut(temp, M) ELSE baselines
    /\ last_results' = IF phase = "shrink" THEN CopyOut(temp, M) ELSE last_results
    /\ worker' = IF worker.st \in { "install", "probe" } THEN worker ELSE NoWorker
    /\ UNCHANGED << psem, shm, tool, call, driver, profile, inputs, log, match_results, stray, sem,
                    envFault, runNo, firstResult, phase, wprofile, consistent,
                    matching_rules, current_profile, rule_index, temp, raw,
                    output >>

\* The parent's branch of sandbox_check_bulk_for_profile: waitpid, the test
\* for a signal, the assertion on the exit status, the copy.
WaitReturn ==
    /\ pc = "wait"
    /\ worker.st \in { "exit0", "exit1", "signaled" }
    /\ UNCHANGED << psem, shm, tool, call, driver, profile, inputs, log, match_results, stray, sem,
                    envFault, runNo, firstResult >>
    /\ IF worker.st = "exit1"
       THEN Crashed                       \* assert(exit_status == 0)
       ELSE /\ worker' = NoWorker
            /\ pc' = "ret"
            /\ callok' = (worker.st = "exit0")
            /\ decisions' = IF worker.st = "exit0" /\ phase = "consistency"
                            THEN CopyOut(temp, M) ELSE decisions
            /\ baselines' = IF worker.st = "exit0" /\ phase = "baseline"
                            THEN CopyOut(temp, M) ELSE baselines
            /\ last_results' = IF worker.st = "exit0" /\ phase = "shrink"
                               THEN CopyOut(temp, M) ELSE last_results
            /\ UNCHANGED << phase, wprofile, consistent, matching_rules,
                            current_profile, rule_index, temp, raw, output >>

-----------------------------------------------------------------------------
(* Parent: the caller's continuation after each batch oracle call *)

\* sandbox_check_bulk_baseline_consistency returns; the baseline call starts.
ConsistencyReturn ==
    /\ pc = "ret"
    /\ phase = "consistency"
    /\ consistent' = IF callok THEN BaselineConsistency(decisions, inputs)
                     ELSE NULL
    /\ decisions' = << >>
    /\ phase' = "baseline"
    /\ wprofile' = profile
    /\ pc' = "fork"
    /\ UNCHANGED << psem, shm, tool, call, driver, profile, inputs, log, match_results, stray, sem,
                    envFault, runNo, firstResult, callok, baselines,
                    matching_rules, current_profile, rule_index, last_results,
                    temp, raw, worker, output >>

\* The baseline call returns: NULL on failure (main then reads statuses[0]),
\* otherwise the match array is set up and the shrink loop is entered.
BaselineReturn ==
    /\ pc = "ret"
    /\ phase = "baseline"
    /\ UNCHANGED << psem, shm, tool, call, driver, profile, inputs, log, match_results, stray, sem,
                    envFault, runNo, firstResult >>
    /\ IF ~callok
       THEN Crashed
       ELSE /\ matching_rules' = [ i \in Events |-> RULE_UNMATCHED ]
            /\ current_profile' = profile
            /\ pc' = "shrink"
            /\ UNCHANGED << phase, wprofile, callok, decisions, consistent,
                            baselines, rule_index, last_results, temp, raw,
                            worker, output >>

\* Head of the shrink loop: remove the last rule, reset last_results, call.
RemoveLast ==
    /\ pc = "shrink"
    /\ LET r == remove_last_rule(current_profile)
       IN  /\ current_profile' = r.result
           /\ rule_index' = r.last_rule_idx
           /\ wprofile' = r.result
    /\ last_results' = [ i \in Events |-> LAST_RESULTS_FILL ]
    /\ phase' = "shrink"
    /\ pc' = "fork"
    /\ UNCHANGED << psem, shm, tool, call, driver, profile, inputs, log, match_results, stray, sem,
                    envFault, runNo, firstResult, callok, decisions,
                    consistent, baselines, matching_rules, temp, raw, worker,
                    output >>

\* The shrink call returns: compare with the baseline, then loop or leave.
ShrinkReturn ==
    /\ pc = "ret"
    /\ phase = "shrink"
    /\ UNCHANGED << psem, shm, tool, call, driver, profile, inputs, log, match_results, stray, sem,
                    envFault, runNo, firstResult >>
    /\ IF ~callok \/ consistent = NULL
       THEN Crashed        \* return NULL, or consistent[i] read through NULL
       ELSE /\ matching_rules' = ShrinkCompare(consistent, matching_rules,
                                               last_results, baselines,
                                               rule_index)
            /\ pc' = IF Len(current_profile) = 0 THEN "fixup" ELSE "shrink"
            /\ UNCHANGED << phase, wprofile, callok, decisions, consistent,
                            baselines, current_profile, rule_index,
                            last_results, temp, raw, worker, output >>

\* The default-deny fix-up; the function returns to main.
Fixup ==
    /\ pc = "fixup"
    /\ matching_rules' = FixupMatches(profile, inputs, consistent, matching_rules)
    /\ consistent' = FixupStatus(profile, inputs, consistent, matching_rules)
    /\ pc' = "emit"
    /\ UNCHANGED << psem, shm, tool, call, driver, profile, inputs, log, match_results, stray, sem,
                    envFault, runNo, firstResult, phase, wprofile, callok,
                    decisions, baselines, current_profile, rule_index,
                    last_results, temp, raw, worker, output >>

\* main prints one element per event.
Emit ==
    /\ pc = "emit"
    /\ output' = EmitResult(consistent, matching_rules)
    /\ pc' = "done"
    /\ UNCHANGED << psem, shm, tool, call, driver, profile, inputs, log, match_results, stray, sem,
                    envFault, runNo, firstResult, phase, wprofile, callok,
                    decisions, consistent, baselines, matching_rules,
                    current_profile, rule_index, last_results, temp, raw,
                    worker >>

\* The program has printed its result and is run again on the same files:
\* a new process, the same system.
Restart ==
    /\ pc = "done"
    /\ runNo = 1
    /\ runNo' = 2
    /\ firstResult' = output
    /\ pc' = "main"
    /\ phase' = "none"
    /\ wprofile' = << >>
    /\ callok' = FALSE
    /\ decisions' = << >>
    /\ consistent' = NULL
    /\ baselines' = << >>
    /\ matching_rules' = << >>
    /\ current_profile' = << >>
    /\ rule_index' = 0
    /\ last_results' = << >>
    /\ temp' = << >>
    /\ worker' = NoWorker
    /\ raw' = << >>
    /\ output' = << >>
    /\ UNCHANGED << psem, shm, tool, call, driver, profile, inputs, log, match_results, stray, sem,
                    envFault >>

Next ==
    \/ StartRun
    \/ Fork
    \/ WorkerInstall
    \/ WorkerInstallFail
    \/ WorkerProbe
    \/ WorkerExit
    \/ WorkerKilled
    \/ WaitReturn
    \/ ConsistencyReturn
    \/ BaselineReturn
    \/ RemoveLast
    \/ ShrinkReturn
    \/ Fixup
    \/ Emit
    \/ Restart

Spec == Init /\ [][Next]_vars

-----------------------------------------------------------------------------
(* The rematcher (rematch_inconsistent.cpp).  The batch oracle call and    *)
(* the worker are the steps above with the active-probe evaluator; the     *)
(* parent's continuation differs: a bool per event instead of a status,    *)
(* the index of the removed rule looked up by value, no external status,   *)
(* and a sanity assertion before returning.                                *)

\* sandbox_recheck_bulk_baseline_consistency, lines 203-211
RecheckConsistency(dec, ins) ==
    [ i \in 1..Len(ins) |->
        IF ins[i].action = "allow" /\ dec[i] = 0 THEN TRUE
        ELSE IF ins[i].action = "deny" /\ dec[i] = 1 THEN TRUE
        ELSE FALSE ]

\* the for loop of the shrink iteration, lines 253-263
RecheckCompare(cons, match, last, base, idx) ==
    [ i \in 1..Len(match) |->
        IF ~cons[i] THEN match[i]
        ELSE IF match[i] = RULE_UNMATCHED /\ last[i] # base[i] THEN idx
        ELSE match[i] ]

\* the default-deny fix-up of the rematcher, lines 275-289
RecheckFixupMatches(P, ins, cons, match) ==
    LET d == get_default(P)
    IN  [ i \in 1..Len(match) |->
            IF d[1].action = "deny" /\ cons[i] /\ match[i] = RULE_UNMATCHED
               /\ ins[i].action = "deny"
            THEN index_for_rule(P, d[1])
            ELSE match[i] ]

\* the sanity check, lines 292-295
SanityCheck(cons, match) ==
    \A i \in 1..Len(match) :
        \/ cons[i] = TRUE /\ match[i] # RULE_UNMATCHED
        \/ cons[i] = FALSE /\ match[i] = RULE_UNMATCHED

\* should_rematch, lines 302-313: the second element of the earlier result
\* is not a number, or the event is a mach-register event.
should_rematch(match_entry, log_entry) ==
    \/ match_entry.kind # "rule"
    \/ log_entry.operation = "mach-register"

RECURSIVE CarveFrom(_, _, _)
\* main, lines 338-349: the events to rematch, in the order of the log
CarveFrom(l, mr, j) ==
    IF j > Len(l) THEN << >>
    ELSE IF should_rematch(mr[j], l[j])
    THEN << l[j] >> \o CarveFrom(l, mr, j + 1)
    ELSE CarveFrom(l, mr, j + 1)

Carve(l, mr) == CarveFrom(l, mr, 1)

RECURSIVE FindNth(_, _, _, _)
\* main, lines 371-382: scan the log for the nth event to rematch
FindNth(l, mr, j, nth_rule) ==
    IF j >= Len(l) THEN PLACEHOLDER_INDEX
    ELSE IF should_rematch(mr[j + 1], l[j + 1])
    THEN IF nth_rule = 0 THEN j ELSE FindNth(l, mr, j + 1, nth_rule - 1)
    ELSE FindNth(l, mr, j + 1, nth_rule)

\* Faulty variant: the position in the carved list is taken for the index.
corresponding_index_carved(l, mr, i) == i

\* main, lines 368-382: the index in the log of the i-th rematched event
corresponding_index(l, mr, i) == FindNth(l, mr, 0, i)

\* main, lines 363-396: one element per rematched event
RecheckEmitResult(l, mr, successes, rule_indices) ==
    [ i \in 1..Len(successes) |->
        IF ~successes[i]
        THEN [ idx |-> corresponding_index(l, mr, i - 1),
               kind |-> "inconsistent", rule |-> RULE_UNMATCHED ]
        ELSE [ idx |-> corresponding_index(l, mr, i - 1),
               kind |-> "rule", rule |-> rule_indices[i] ] ]

RuleAS == [ action |-> "allow",
            operations |-> << "ipc-posix-sem-create", "ipc-posix-sem-open",
                              "ipc-posix-sem-unlink" >>,
            filter |-> NoFilter ]
RuleACO == [ action |-> "allow",
             operations |-> << "ipc-posix-sem-create", "ipc-posix-sem-open" >>,
             filter |-> << "ipc-posix-name", "n" >> ]

RematcherRules == { RuleDD, RuleAD, RuleAS, RuleACO }

RematcherEvents ==
    { Ev("ipc-posix-sem-create", "n", "allow"),
      Ev("ipc-posix-sem-create", "n", "deny"),
      Ev("ipc-posix-sem-unlink", "n", "allow"),
      Ev("ipc-posix-sem-open", "n", "deny"),
      Ev("file-read-data", "/a", "deny") }

\* An earlier result [j, "inconsistent"] for the event at index j.
PrevInconsistent(j) == [ idx |-> j, kind |-> "inconsistent", rule |-> RULE_UNMATCHED ]

\* The rematcher run on a log none of whose events was matched before.
InitRematch ==
    /\ driver = "rematcher"
    /\ profile \in SeqsUpTo(RematcherRules, MaxRules)
    /\ log \in SeqsUpTo(RematcherEvents, MaxEvents)
    /\ match_results = [ j \in 1..Len(log) |-> PrevInconsistent(j - 1) ]
    /\ inputs = << >>
    /\ stray = NoStray
    /\ shm = FALSE
    /\ sem \in BOOLEAN
    /\ envFault = FALSE
    /\ runNo = 1
    /\ firstResult = << >>
    /\ pc = "main"
    /\ FreshProcess

\* main carves out the events to rematch and calls
\* sandbox_bulk_find_matching_rule, which starts the consistency call.
RecheckStartRun ==
    /\ pc = "main"
    /\ inputs' = Carve(log, match_results)
    /\ pc' = "fork"
    /\ phase' = "consistency"
    /\ wprofile' = profile
    /\ UNCHANGED << psem, shm, tool, call, driver, profile, log, match_results, stray, sem, envFault,
                    runNo, firstResult, callok, decisions, consistent,
                    baselines, matching_rules, current_profile, rule_index,
                    last_results, temp, raw, worker, output >>

\* sandbox_recheck_bulk_baseline_consistency returns; the baseline call starts.
RecheckConsistencyReturn ==
    /\ pc = "ret"
    /\ phase = "consistency"
    /\ consistent' = IF callok THEN RecheckConsistency(decisions, inputs)
                     ELSE NULL
    /\ decisions' = << >>
    /\ phase' = "baseline"
    /\ wprofile' = profile
    /\ pc' = "fork"
    /\ UNCHANGED << psem, shm, tool, call, driver, profile, inputs, log, match_results, stray, sem,
                    envFault, runNo, firstResult, callok, baselines,
                    matching_rules, current_profile, rule_index, last_results,
                    temp, raw, worker, output >>

\* The baseline call returns: NULL on failure (main then reads successes[0]).
RecheckBaselineReturn ==
    /\ pc = "ret"
    /\ phase = "baseline"
    /\ UNCHANGED << psem, shm, tool, call, driver, profile, inputs, log, match_results, stray, sem,
                    envFault, runNo, firstResult >>
    /\ IF ~callok
       THEN Crashed
       ELSE /\ matching_rules' = [ i \in Events |-> RULE_UNMATCHED ]
            /\ current_profile' = profile
            /\ pc' = "shrink"
            /\ UNCHANGED << phase, wprofile, callok, decisions, consistent,
                            baselines, rule_index, last_results, temp, raw,
                            worker, output >>

\* Head of the shrink loop: remove the last rule, look its index up in the
\* original profile, reset last_results, call.  The two-argument
\* remove_last_rule called here is not among the sources; it is taken to
\* remove the last rule as the three-argument one does.
RecheckRemoveLast ==
    /\ pc = "shrink"
    /\ LET r == remove_last_rule(current_profile)
       IN  /\ current_profile' = r.result
           /\ rule_index' = index_for_rule(profile, r.last_rule)
           /\ wprofile' = r.result
    /\ last_results' = [ i \in Events |-> LAST_RESULTS_FILL ]
    /\ phase' = "shrink"
    /\ pc' = "fork"
    /\ UNCHANGED << psem, shm, tool, call, driver, profile, inputs, log, match_results, stray, sem,
                    envFault, runNo, firstResult, callok, decisions,
                    consistent, baselines, matching_rules, temp, raw, worker,
                    output >>

\* The shrink call returns: compare with the baseline, then loop or leave.
RecheckShrinkReturn ==
    /\ pc = "ret"
    /\ phase = "shrink"
    /\ UNCHANGED << psem, shm, tool, call, driver, profile, inputs, log, match_results, stray, sem,
                    envFault, runNo, firstResult >>
    /\ IF ~callok \/ consistent = NULL
       THEN Crashed        \* return NULL, or consistent[i] read through NULL
       ELSE /\ matching_rules' = RecheckCompare(consistent, matching_rules,
                                                last_results, baselines,
                                                rule_index)
            /\ pc' = IF Len(current_profile) = 0 THEN "fixup" ELSE "shrink"
            /\ UNCHANGED << phase, wprofile, callok, decisions, consistent,
                            baselines, current_profile, rule_index,
                            last_results, temp, raw, worker, output >>

\* The fix-up and the sanity check.  default_action is a const json: its
\* operator[] throws when get_default returned null, and nothing catches.
RecheckFixup ==
    /\ pc = "fixup"
    /\ UNCHANGED << psem, shm, tool, call, driver, profile, inputs, log, match_results, stray, sem,
                    envFault, runNo, firstResult >>
    /\ IF get_default(profile) = NULL
       THEN Crashed
       ELSE LET m == RecheckFixupMatches(profile, inputs, consistent,
                                         matching_rules)
            IN  IF ~SanityCheck(consistent, m)
                THEN Crashed
                ELSE /\ matching_rules' = m
                     /\ pc' = "emit"
                     /\ UNCHANGED << phase, wprofile, callok, decisions,
                                     consistent, baselines, current_profile,
                                     rule_index, last_results, temp, raw,
                                     worker, output >>

\* main prints one element per rematched event.
RecheckEmit ==
    /\ pc = "emit"
    /\ output' = RecheckEmitResult(log, match_results, consistent, matching_rules)
    /\ pc' = "done"
    /\ UNCHANGED << psem, shm, tool, call, driver, profile, inputs, log, match_results, stray, sem,
                    envFault, runNo, firstResult, phase, wprofile, callok,
                    decisions, consistent, baselines, matching_rules,
                    current_profile, rule_index, last_results, temp, raw,
                    worker >>

NextRematch ==
    \/ RecheckStartRun
    \/ Fork
    \/ WorkerInstall
    \/ WorkerInstallFail
    \/ WorkerProbe
    \/ WorkerExit
    \/ WorkerKilled
    \/ WaitReturn
    \/ RecheckConsistencyReturn
    \/ RecheckBaselineReturn
    \/ RecheckRemoveLast
    \/ RecheckShrinkReturn
    \/ RecheckFixup
    \/ RecheckEmit
    \/ Restart

SpecRematch == InitRematch /\ [][NextRematch]_vars

-----------------------------------------------------------------------------
(* The run of the matcher as a function of its inputs, when the environment *)
(* neither kills a worker nor fails an installation: the same computations  *)
(* composed in program order.  FAILED stands for a run that prints nothing. *)

FAILED == << >>

\* sandbox_check_bulk_for_profile: the vector the worker writes.
BulkDecisions(W, ins) == [ i \in 1..Len(ins) |-> WorkerDecision(W, ins[i]) ]

\* The worker's assert(decision == 0 || decision == 1) holds for every event.
BulkSucceeds(W, ins) == \A i \in 1..Len(ins) : BulkDecisions(W, ins)[i] \in { 0, 1 }

RECURSIVE ShrinkLoop(_, _, _, _, _)
\* the while (true) loop of sandbox_bulk_find_matching_rule
ShrinkLoop(W, ins, cons, base, match) ==
    LET r == remove_last_rule(W)
    IN  IF ~BulkSucceeds(r.result, ins) THEN FAILED
        ELSE LET m2 == ShrinkCompare(cons, match, BulkDecisions(r.result, ins),
                                     base, r.last_rule_idx)
             IN  IF Len(r.result) = 0 THEN m2
                 ELSE ShrinkLoop(r.result, ins, cons, base, m2)

\* sandbox_bulk_find_matching_rule followed by main's output loop
RunMatcher(P, ins) ==
    IF ~BulkSucceeds(P, ins) THEN FAILED
    ELSE LET base == BulkDecisions(P, ins)
             cons == BaselineConsistency(base, ins)
             m == ShrinkLoop(P, ins, cons, base,
                             [ i \in 1..Len(ins) |-> RULE_UNMATCHED ])
         IN  IF m = FAILED THEN FAILED
             ELSE EmitResult(FixupStatus(P, ins, cons, m),
                             FixupMatches(P, ins, cons, m))

-----------------------------------------------------------------------------
(* Vocabulary of the claims *)

N == Len(profile)

Done == pc = "done"

Attributed(i) == output[i].kind = "rule"

\* P[0..j): rule j and all later rules removed (j is a 0-based index).
Prefix(P, j) == SubSeq(P, 1, j)

\* P with only rule j removed (j is a 0-based index).
WithoutRule(P, j) == SubSeq(P, 1, j) \o SubSeq(P, j + 2, Len(P))

\* The 0-based index of the last rule of P that applies to the event, -1 if none.
LastMatching(P, e) ==
    LET hits == { k \in 1..Len(P) :
                    RuleApplies(P[k], e.operation,
                                ResourceCategory(e.operation), e.argument) }
    IN  IF hits = {} THEN -1 ELSE Max(hits) - 1

IsDefaultDeny(r) == HasDefaultOp(r) /\ r.action = "deny"

\* No prefix of P decides event i differently from the baseline.
NoPrefixDiffers(i) ==
    \A j \in 0..(N - 1) : WorkerDecision(Prefix(profile, j), inputs[i]) = baselines[i]

\* The event list with the logged action of event i replaced by the opposite.
FlipAction(ins, i) ==
    [ ins EXCEPT ![i].action = IF ins[i].action = "allow" THEN "deny" ELSE "allow" ]

Perms(n) == { f \in [1..n -> 1..n] : \A w \in 1..n : \E v \in 1..n : f[v] = w }

\* An output element without the event position it is printed with.
Outcome(x) == [ kind |-> x.kind, rule |-> x.rule ]

-----------------------------------------------------------------------------
(* C1: whenever the attribution tool attributes event i to rule j, rule j  *)
(* is the last rule of the original policy P that matches event i.         *)
(* Refuted: a rule shadowed by a later rule of the same action, or the     *)
(* default-deny rule, is reported instead.                                 *)
C1_LastMatchingRuleAttributed ==
    Done => \A i \in Events :
        Attributed(i) => output[i].rule = LastMatching(profile, inputs[i])

\* The step of the fix-up: every index it newly assigns is that of a rule
\* whose operations contain "default" and whose action is deny.
C2_FixupStep ==
    pc = "fixup" =>
        \A i \in Events :
            (matching_rules[i] = RULE_UNMATCHED /\ matching_rules'[i] # RULE_UNMATCHED)
            => /\ matching_rules'[i] \in 0..(N - 1)
               /\ IsDefaultDeny(profile[matching_rules'[i] + 1])

(* C2: every emitted rule index lies in [0, N) and is never the UNMATCHED  *)
(* marker, and every index the default-deny fix-up assigns is the index of *)
(* a rule whose operations contain "default" and whose action is deny.     *)
C2_IndexValidity ==
    /\ [](Done => \A i \in Events :
            Attributed(i) => /\ output[i].rule \in 0..(N - 1)
                             /\ output[i].rule # RULE_UNMATCHED)
    /\ [][C2_FixupStep]_vars

\* A run that printed an index assigned by the shrink loop and one assigned
\* by the fix-up.
C2_Witness ==
    /\ Done
    /\ \E i \in Events : Attributed(i) /\ ~NoPrefixDiffers(i)
    /\ \E k \in Events : Attributed(k) /\ NoPrefixDiffers(k)
                         /\ IsDefaultDeny(profile[output[k].rule + 1])

(* C3 as stated: for every event attributed to rule j, the oracle on P     *)
(* with only rule j removed decides the event differently from baseline.   *)
C3_RemovalWitness ==
    Done => \A i \in Events :
        Attributed(i) =>
            WorkerDecision(WithoutRule(profile, output[i].rule), inputs[i])
                # baselines[i]

(* C3 amended: for every event the shrink loop attributes to rule j, the   *)
(* oracle on P with rule j and all later rules removed decides the event   *)
(* differently from the baseline.                                          *)
C3_PrefixRemovalWitness ==
    (pc \in { "shrink", "fork", "wait", "ret", "fixup" } /\ matching_rules # << >>)
    => \A i \in Events :
         matching_rules[i] # RULE_UNMATCHED
         => /\ matching_rules[i] \in 0..(N - 1)
            /\ WorkerDecision(Prefix(profile, matching_rules[i]), inputs[i])
                 # baselines[i]

\* The shrink loop attributed an event to a rule whose removal alone does
\* not change the decision.
C3_Witness ==
    /\ pc = "fixup"
    /\ \E i \in Events :
         /\ matching_rules[i] # RULE_UNMATCHED
         /\ WorkerDecision(WithoutRule(profile, matching_rules[i]), inputs[i])
              = baselines[i]

(* C5: if event i is attributed to a rule index, the run that differs only *)
(* in the logged action of event i reports event i inconsistent and every  *)
(* other event as before.                                                  *)
C5_FlippedActionInconsistent ==
    Done => \A i \in Events :
        Attributed(i) =>
            LET twin == RunMatcher(profile, FlipAction(inputs, i))
            IN  /\ twin # FAILED
                /\ twin[i].kind = "inconsistent"
                /\ \A k \in Events \ { i } : twin[k] = output[k]

\* Two events, both attributed to a rule.
C5_Witness ==
    /\ Done
    /\ M = 2
    /\ Attributed(1) /\ Attributed(2)
    /\ inputs[1].action # inputs[2].action

(* C6: permuting the event list permutes the output of the attribution     *)
(* tool the same way, and each event gets the outcome it gets when it is   *)
(* the only event of the batch.                                            *)
C6_OrderInvariance ==
    Done =>
        /\ \A f \in Perms(M) :
             LET twin == RunMatcher(profile, [ i \in 1..M |-> inputs[f[i]] ])
             IN  /\ twin # FAILED
                 /\ \A i \in 1..M : /\ Outcome(twin[i]) = Outcome(output[f[i]])
                                    /\ twin[i].idx = i - 1
        /\ \A i \in Events :
             LET alone == RunMatcher(profile, << inputs[i] >>)
             IN  alone # FAILED /\ Outcome(alone[1]) = Outcome(output[i])

\* Two different events with different outcomes, one of them a rule index.
C6_Witness ==
    /\ Done
    /\ M = 2
    /\ Attributed(1)
    /\ output[2].kind # "rule"
    /\ inputs[1].operation # inputs[2].operation

(* C8: the shared buffer holds the sentinel byte in every entry when the   *)
(* worker is forked, and whenever a batch oracle call reports success      *)
(* every entry of the returned vector is a decision, not the sentinel.     *)
Returned ==
    IF phase = "consistency" THEN decisions
    ELSE IF phase = "baseline" THEN baselines
    ELSE last_results

LegalDecisions ==
    { DECISION_ALLOW, DECISION_DENY, DECISION_UNKNOWN, DECISION_ERROR }

C8_WorkerHygiene ==
    /\ worker.st = "install" =>
         /\ Len(temp) = M
         /\ \A i \in Events : temp[i] = SENTINEL
    /\ (pc = "ret" /\ callok) =>
         /\ Len(Returned) = M
         /\ \A i \in Events : /\ Returned[i] # SENTINEL
                              /\ Returned[i] \in LegalDecisions

\* A shrink-iteration call that succeeded on a buffer used before.
C8_Witness ==
    /\ pc = "ret" /\ callok /\ phase = "shrink"
    /\ \E i \in Events : last_results[i] # baselines[i]

(* C9: on successful completion there is exactly one output element per    *)
(* event, in event order; it is a rule index iff the final status is       *)
(* consistent and match[i] is not UNMATCHED; an event whose baseline was   *)
(* inconsistent has no rule index in any phase.                            *)
C9_OutputShape ==
    /\ Done =>
         /\ Len(output) = M
         /\ \A i \in Events :
              /\ output[i].idx = i - 1
              /\ output[i].kind \in { "rule", "inconsistent", "external" }
              /\ Attributed(i) <=> ( /\ consistent[i] = SANDBOX_CONSISTENT
                                     /\ matching_rules[i] # RULE_UNMATCHED )
              /\ Attributed(i) => output[i].rule = matching_rules[i]
              /\ ~Attributed(i) => output[i].rule = RULE_UNMATCHED
    /\ (consistent # NULL /\ matching_rules # << >>) =>
         \A i \in Events :
            consistent[i] = SANDBOX_INCONSISTENT
            => matching_rules[i] = RULE_UNMATCHED

\* A run that printed an external event next to an attributed one.
C9_Witness ==
    /\ Done
    /\ \E i \in Events : output[i].kind = "external"
    /\ \E i \in Events : Attributed(i)

-----------------------------------------------------------------------------
(* Claims about both drivers *)

(* C4: every event whose emitted attribution is the index of a default-    *)
(* deny rule has logged action deny and baseline decision deny.  Refuted   *)
(* for the rematcher, whose two baseline calls can disagree.               *)
C4_DefaultDenySoundness ==
    Done => \A i \in Events :
        (Attributed(i) /\ IsDefaultDeny(profile[output[i].rule + 1]))
        => /\ inputs[i].action = "deny"
           /\ baselines[i] = DECISION_DENY

(* C7: the second of two successive runs on the same policy and events     *)
(* prints what the first run printed.  Refuted for the rematcher, whose    *)
(* probes leave the system changed.                                        *)
C7_Idempotence ==
    (Done /\ runNo = 2 /\ ~envFault) => output = firstResult

(* C10: an event whose evaluation on the full policy yields unknown or     *)
(* error (in the rematcher: every ipc-posix-sem-open event and every       *)
(* operation without an active probe) is reported inconsistent.  Refuted:  *)
(* the rematcher turns every such result into deny.                        *)
C10_ErrorIsInconsistent ==
    Done => \A i \in Events :
        ( \/ inputs[i].operation = "ipc-posix-sem-open"
          \/ inputs[i].operation \notin check_functions )
        => output[i].kind = "inconsistent"


-----------------------------------------------------------------------------
\* C13: in every iteration of the rematcher's shrink loop the index recorded
\* for the removed rule is the position that rule occupied in the policy,
\* which is the length of the shrunk rule set, also when the policy holds
\* two structurally equal rules.
C13_RemovedRuleIndex ==
    (driver = "rematcher" /\ phase = "shrink" /\ pc \in { "fork", "wait", "ret" })
        => rule_index = Len(current_profile)

-----------------------------------------------------------------------------
\* C18: when a batch call made by sandbox_bulk_find_matching_rule has failed,
\* the function returns failure at once: it starts no further batch call and
\* uses no array of the failed call.  A failed consistency call leaves the
\* status array NULL, so no call may be under way with a NULL status array.
C18_FailureReturnsAtOnce ==
    (driver = "matcher" /\ phase \in { "baseline", "shrink" } /\ consistent = NULL)
        => pc \notin { "fork", "wait" }

-----------------------------------------------------------------------------
\* The position (from 1) of the first rule of P with a "default" operation,
\* 0 when P has none.
FirstDefault(P) ==
    LET ds == { k \in 1..Len(P) : HasDefaultOp(P[k]) }
    IN  IF ds = {} THEN 0 ELSE Min(ds)

C12_FixupStep ==
    (driver = "matcher" /\ pc = "fixup") =>
        \A i \in Events :
            (consistent[i] = SANDBOX_CONSISTENT /\ matching_rules[i] = RULE_UNMATCHED)
            => LET k == FirstDefault(profile)
               IN  IF k > 0 /\ profile[k].action = "deny"
                      /\ inputs[i].action = "deny"
                   THEN /\ matching_rules'[i] = k - 1
                        /\ consistent'[i] = SANDBOX_CONSISTENT
                   ELSE /\ matching_rules'[i] = RULE_UNMATCHED
                        /\ consistent'[i] = SANDBOX_EXTERNAL

\* C12: the fix-up of the matcher attributes a baseline-consistent event
\* that the shrink loop left unmatched to the index of the first rule of P
\* with a "default" operation exactly when P has such a rule, its action is
\* deny and the logged action is deny; in every other case the event's
\* status becomes external and it keeps no rule index.
C12_FixupClassification == [][C12_FixupStep]_vars

C12_Witness ==
    /\ driver = "matcher"
    /\ pc = "emit"
    /\ \E k \in Events : /\ NoPrefixDiffers(k)
                         /\ consistent[k] = SANDBOX_CONSISTENT
                         /\ matching_rules[k] = FirstDefault(profile) - 1
                         /\ FirstDefault(profile) > 1

-----------------------------------------------------------------------------
\* C19: the iterations are strictly sequential.  A worker exists only while
\* the parent is blocked in waitpid of the call that forked it, so no worker
\* is alive when the parent forks the next one, and when a call has returned
\* success the caller's array is the copy of the buffer the worker left.
C19_StrictlySequential ==
    /\ worker.st # "none" => pc = "wait"
    /\ pc = "fork" => worker = NoWorker
    /\ (pc = "ret" /\ callok) => (worker = NoWorker /\ Returned = temp)

C19_Witness ==
    /\ driver = "matcher"
    /\ pc = "fork"
    /\ phase = "shrink"
    /\ Len(current_profile) < N - 1
    /\ \E i \in Events : last_results[i] = LAST_RESULTS_FILL

-----------------------------------------------------------------------------
C17_WaitStep ==
    (pc = "wait" /\ worker.st \in { "exit1", "signaled" }) =>
        /\ pc' = "ret"
        /\ callok' = FALSE
        /\ UNCHANGED << decisions, baselines, last_results >>

\* C17: when the worker of a batch call was killed by a signal or exited
\* with a non-zero status, the call returns to its caller, reports failure
\* and has written no entry of the caller's result vector.
C17_FailureReported == [][C17_WaitStep]_vars

-----------------------------------------------------------------------------
\* C11: in the shrink loop an event is attributed only when the evaluator's
\* answer under the shrunk policy is a genuine allow or deny that differs
\* from the baseline: for every event the compare step is about to attribute,
\* what the evaluator got in this iteration is neither unknown nor an error.
C11_GenuineDecisionAttributed ==
    (pc = "ret" /\ phase = "shrink" /\ callok /\ consistent # NULL) =>
        \A i \in Events :
            ( /\ IF driver = "matcher" THEN consistent[i] = SANDBOX_CONSISTENT
                                      ELSE consistent[i]
              /\ matching_rules[i] = RULE_UNMATCHED
              /\ last_results[i] # baselines[i] )
            => raw[i] \in { DECISION_ALLOW, DECISION_DENY }

-----------------------------------------------------------------------------
(* The rematcher's sandbox_bulk_find_matching_rule as a function of the     *)
(* policy, the events and the decision matrix: mat[j + 1] is the vector of  *)
(* decisions under the first j rules of the policy.                         *)

RECURSIVE RecheckShrinkLoop(_, _, _, _, _, _)
\* the while (true) loop, lines 240-268
RecheckShrinkLoop(P, W, cons, base, match, mat) ==
    LET r == remove_last_rule(W)
        idx == index_for_rule(P, r.last_rule)
        m2 == RecheckCompare(cons, match, mat[Len(r.result) + 1], base, idx)
    IN  IF Len(r.result) = 0 THEN m2
        ELSE RecheckShrinkLoop(P, r.result, cons, base, m2, mat)

\* sandbox_bulk_find_matching_rule followed by main's output loop, for a log
\* all of whose events are rematched
RunRematcher(P, ins, mat) ==
    LET base == mat[Len(P) + 1]
        cons == RecheckConsistency(base, ins)
        m0 == [ i \in 1..Len(ins) |-> RULE_UNMATCHED ]
        m1 == RecheckShrinkLoop(P, P, cons, base, m0, mat)
    IN  IF get_default(P) = NULL THEN FAILED
        ELSE LET m2 == RecheckFixupMatches(P, ins, cons, m1)
             IN  IF ~SanityCheck(cons, m2) THEN FAILED
                 ELSE RecheckEmitResult(ins,
                          [ j \in 1..Len(ins) |-> PrevInconsistent(j - 1) ],
                          cons, m2)

\* The decision matrix of the matcher's run on policy P and events ins.
DecisionMatrix(P, ins) ==
    [ j \in 1..(Len(P) + 1) |-> BulkDecisions(Prefix(P, j - 1), ins) ]

\* C14: fed the policy, the events and the decision matrix of a completed
\* run of the matcher, the rematcher's sandbox_bulk_find_matching_rule
\* completes and yields the per-event results the matcher printed.
C14_RematcherRefinesMatcher ==
    (driver = "matcher" /\ Done /\ ~envFault) =>
        RunRematcher(profile, inputs, DecisionMatrix(profile, inputs)) = output

-----------------------------------------------------------------------------
(* The rematcher on a log of which only some events are rematched *)

MaxLog == 3

CarveRules == { RuleDD, RuleAS }

CarveEvents ==
    { Ev("ipc-posix-sem-create", "n", "allow"),
      Ev("ipc-posix-sem-open", "n", "deny"),
      Ev("mach-register", "svc", "deny") }

\* The earlier results for the event at index j: [j, r], [j, "inconsistent"]
\* and [j, "external"], as match_rules prints them.
PrevResults(j) ==
    { [ idx |-> j, kind |-> "rule", rule |-> 0 ],
      PrevInconsistent(j),
      [ idx |-> j, kind |-> "external", rule |-> RULE_UNMATCHED ] }

\* A log with one earlier result per event, at least one of them rematched.
InitCarve ==
    /\ driver = "rematcher"
    /\ profile \in SeqsUpTo(CarveRules, 2)
    /\ log \in SeqsUpTo(CarveEvents, MaxLog)
    /\ match_results \in [ 1..Len(log) -> UNION { PrevResults(j) : j \in 0..(MaxLog - 1) } ]
    /\ \A j \in 1..Len(log) : match_results[j] \in PrevResults(j - 1)
    /\ Carve(log, match_results) # << >>
    /\ inputs = << >>
    /\ stray = NoStray
    /\ shm = FALSE
    /\ sem = FALSE
    /\ envFault = FALSE
    /\ runNo = 1
    /\ firstResult = << >>
    /\ pc = "main"
    /\ FreshProcess

SpecCarve == InitCarve /\ [][NextRematch]_vars

\* The positions (from 1) in the log of the events the claim selects: the
\* earlier result is "inconsistent" or the operation is mach-register.
ClaimedSelection ==
    { j \in 1..Len(log) : \/ match_results[j].kind = "inconsistent"
                          \/ log[j].operation = "mach-register" }

\* The k-th smallest element of a set of numbers.
Kth(S, k) == CHOOSE j \in S : Cardinality({ x \in S : x < j }) = k - 1

\* C15: the rematcher re-evaluates exactly the events whose earlier result
\* is "inconsistent" or whose operation is mach-register, in log order; an
\* event that was attributed before (and is not mach-register) or was
\* external is neither re-evaluated nor part of the output.
C15_OnlyInconsistentRematched ==
    /\ (driver = "rematcher" /\ pc # "main") =>
          /\ Len(inputs) = Cardinality(ClaimedSelection)
          /\ \A k \in 1..Len(inputs) : inputs[k] = log[Kth(ClaimedSelection, k)]
    /\ (driver = "rematcher" /\ Done) =>
          \A k \in 1..Len(output) : output[k].idx + 1 \in ClaimedSelection

\* The positions (from 1) in the log of the events main carves out.
Rematched == { j \in 1..Len(log) : should_rematch(match_results[j], log[j]) }

\* C16: the k-th re-evaluated event is emitted as [j, x] with j the index in
\* the full log of the k-th event that was carved out; j grows strictly
\* with k, the log entry at j is the event that was evaluated, and the
\* placeholder 777777 is never emitted.
C16_MergeByOriginalIndex ==
    (driver = "rematcher" /\ Done) =>
        /\ Len(output) = Cardinality(Rematched)
        /\ \A k \in 1..Len(output) :
              /\ output[k].idx = Kth(Rematched, k) - 1
              /\ log[output[k].idx + 1] = inputs[k]
              /\ output[k].idx # PLACEHOLDER_INDEX
        /\ \A k \in 1..Len(output) : \A h \in 1..Len(output) :
              k < h => output[k].idx < output[h].idx

C16_Witness ==
    /\ driver = "rematcher"
    /\ Done
    /\ Len(log) = 3
    /\ Len(output) = 2
    /\ output[1].idx = 0
    /\ output[2].idx = 2
    /\ log[1] # log[3]

-----------------------------------------------------------------------------
(* The rematcher on signal events.  The child the signal probe forks sleeps *)
(* five seconds; when the policy denies the kill it lives on, returns -1    *)
(* from sandbox_check_signal into the worker's loop at the event the worker *)
(* was probing, stores the decision and runs the rest of the loop, with the *)
(* buffer mapping and the policy it inherited.  One such child is followed; *)
(* a further child left behind while one is followed is not.                *)

RuleAF == [ action |-> "allow", operations |-> << "process-fork" >>, filter |-> NoFilter ]
RuleASig == [ action |-> "allow", operations |-> << "signal" >>, filter |-> NoFilter ]

SignalRules == { RuleDD, RuleAF, RuleASig }

SignalEvents ==
    { Ev("signal", "", "allow"), Ev("signal", "", "deny"),
      Ev("mach-register", "svc", "deny") }

InitSignal ==
    /\ driver = "rematcher"
    /\ profile \in SeqsUpTo(SignalRules, MaxRules)
    /\ log \in SeqsUpTo(SignalEvents, MaxEvents)
    /\ match_results = [ j \in 1..Len(log) |-> PrevInconsistent(j - 1) ]
    /\ inputs = << >>
    /\ stray = NoStray
    /\ shm = FALSE
    /\ sem = FALSE
    /\ envFault = FALSE
    /\ runNo = 1
    /\ firstResult = << >>
    /\ pc = "main"
    /\ FreshProcess

\* temp[i] = (uint8_t) decision, done by the surviving child: it reaches the
\* buffer of the process that forked its worker while that process lives.
StrayStore(d) ==
    IF stray.run = runNo /\ stray.i <= Len(temp)
    THEN [ temp EXCEPT ![stray.i] = d ]
    ELSE temp

StrayFrame ==
    UNCHANGED << psem, shm, tool, call, driver, profile, inputs, log, match_results, envFault, runNo,
                 firstResult, pc, phase, wprofile, callok, decisions,
                 consistent, baselines, matching_rules, current_profile,
                 rule_index, last_results, worker, raw, output >>

\* sleep(5) is over: sandbox_check_signal returns -1, sandbox_recheck_custom
\* makes it 1, the assertion passes and the byte is stored.
StrayWake ==
    /\ stray.st = "asleep"
    /\ temp' = StrayStore(1)
    /\ stray' = [ stray EXCEPT !.st = "running", !.i = stray.i + 1 ]
    /\ UNCHANGED sem
    /\ StrayFrame

\* The surviving child runs a further iteration of the worker's loop.
StrayProbe ==
    /\ stray.st = "running"
    /\ stray.i <= Len(inputs)
    /\ LET r == sandbox_recheck_custom(stray.W, inputs[stray.i], sem)
       IN  /\ sem' = r.sem
           /\ temp' = StrayStore(r.decision)
    /\ stray' = [ stray EXCEPT !.i = stray.i + 1 ]
    /\ StrayFrame

\* exit(0) after the loop, or the child is killed from outside.
StrayExit ==
    /\ \/ stray.st = "running" /\ stray.i > Len(inputs)
       \/ stray.st = "asleep"
    /\ stray' = NoStray
    /\ UNCHANGED << sem, temp >>
    /\ StrayFrame

NextSignal ==
    \/ NextRematch
    \/ StrayWake
    \/ StrayProbe
    \/ StrayExit

SpecSignal == InitSignal /\ [][NextSignal]_vars

\* C20: between the pre-fill and the copy-out of a batch call the buffer is
\* written by the worker of that call only.  While the worker runs, every
\* entry it has not reached yet therefore still holds the pre-fill byte.
C20_OnlyCurrentWorkerWrites ==
    worker.st \in { "install", "probe" } =>
        \A k \in Events : k >= worker.i => temp[k] = SENTINEL

-----------------------------------------------------------------------------
-----------------------------------------------------------------------------
(* The consistency tool (matcher.cpp): one process that installs the       *)
(* profile on itself and then asks the kernel about each log entry, and    *)
(* performs the operation when the answer disagrees with the entry.        *)

\* enum sandbox_match_status of matcher.cpp
MATCH_CONSISTENT == 0
MATCH_INCONSISTENT == 1
MATCH_UNKNOWN == 2

\* Stands in performed_decision for an iteration that did not perform.
NOT_PERFORMED == 99

\* enum sandbox_filter_type between SANDBOX_FILTER_NONE and
\* SANDBOX_FILTER_UNKNOWN, in the order of the enumeration.
FilterOrder ==
    << "path", "global-name", "local-name", "appleevent-destination",
       "right-name", "preference-domain", "kext-bundle-id", "info-type",
       "notification" >>

RECURSIVE FilterLoop(_, _, _, _, _)
\* the for loop over the filter types, lines 118-128: qs collects what the
\* queries returned
FilterLoop(W, operation, argument, k, qs) ==
    IF k > Len(FilterOrder)
    THEN [ decision |-> DECISION_DENY, queries |-> qs ]
    ELSE LET res == sandbox_check(W, operation, FilterOrder[k], argument)
         IN  IF res = 0
             THEN [ decision |-> DECISION_ALLOW, queries |-> Append(qs, res) ]
             ELSE FilterLoop(W, operation, argument, k + 1, Append(qs, res))

\* sandbox_check_custom of matcher.cpp: the decision and what the queries
\* it issued returned
matcher_sandbox_check_custom(W, log_entry, is_allow_default) ==
    LET operation == log_entry.operation
        argument == log_entry.argument
        filter_type == sandbox_filter_type_for_op(operation)
        once(rv) == [ decision |-> IF ~(rv = 0 \/ rv = 1) THEN DECISION_ERROR
                                   ELSE IF rv = 0 THEN DECISION_ALLOW
                                   ELSE DECISION_DENY,
                      queries |-> << rv >> ]
    IN  IF argument # ""
        THEN IF filter_type = "unknown"
             THEN IF is_allow_default
                  THEN [ decision |-> DECISION_UNKNOWN, queries |-> << >> ]
                  ELSE FilterLoop(W, operation, argument, 1, << >>)
             ELSE once(sandbox_check(W, operation, filter_type, argument))
        ELSE once(sandbox_check(W, operation, "none", ""))

ShmAllowed(W, op, name) == KernelDecision(W, op, "ipc-posix-name", name) = 0

\* shm_open(name, oflags) with oflags O_RDONLY or O_RDWR: a name that does
\* not exist fails with ENOENT, otherwise the sandbox decides, on
\* ipc-posix-shm-read-data for O_RDONLY and on ipc-posix-shm-write-data for
\* O_RDWR.
sys_shm_open(W, name, oflags, m) ==
    IF ~m THEN "ENOENT"
    ELSE IF ShmAllowed(W, IF oflags = "O_RDONLY" THEN "ipc-posix-shm-read-data"
                          ELSE "ipc-posix-shm-write-data", name)
    THEN "ok" ELSE "EPERM"

\* shm_open(name, oflags | O_CREAT, 0777): on a name that does not exist the
\* sandbox decides on ipc-posix-shm-write-create, an existing object is
\* opened.
sys_shm_create(W, name, oflags, m) ==
    IF m THEN sys_shm_open(W, name, oflags, m)
    ELSE IF ShmAllowed(W, "ipc-posix-shm-write-create", name)
    THEN "ok" ELSE "EPERM"

\* shm_unlink(name)
sys_shm_unlink(W, name, m) ==
    IF ~m THEN "ENOENT"
    ELSE IF ShmAllowed(W, "ipc-posix-shm-write-unlink", name)
    THEN "ok" ELSE "EPERM"

\* The errno values with which the system makes the first shm_open of a
\* probe fail for a reason of its own (the mode of an object of another
\* user, a full descriptor table); "none" when it does not.
ShmFaults == { "none", "EACCES", "EMFILE" }

\* shm_open_or_create (posix_shm.c) with fd_out NULL: after a failure with
\* an errno other than EPERM and ENOENT control reaches the last return.
shm_open_or_create(W, name, oflags, m, fault) ==
    LET o == IF fault # "none" THEN fault ELSE sys_shm_open(W, name, oflags, m)
    IN  IF o = "EPERM" THEN [ decision |-> DECISION_DENY, shm |-> m ]
        ELSE IF o = "ENOENT"
        THEN IF sys_shm_create(W, name, oflags, m) = "ok"
             THEN [ decision |-> DECISION_ALLOW, shm |-> TRUE ]
             ELSE [ decision |-> DECISION_UNKNOWN, shm |-> m ]
        ELSE [ decision |-> DECISION_ALLOW, shm |-> m ]

\* sandbox_check_shm_read_data (posix_shm.c)
sandbox_check_shm_read_data(W, name, m, fault) ==
    shm_open_or_create(W, name, "O_RDONLY", m, fault)

\* sandbox_check_shm_write_data (posix_shm.c)
sandbox_check_shm_write_data(W, name, m, fault) ==
    shm_open_or_create(W, name, "O_RDWR", m, fault)

\* sandbox_check_shm_write_create (posix_shm.c)
sandbox_check_shm_write_create(W, name, m, fault) ==
    LET o == IF fault # "none" THEN fault
             ELSE sys_shm_open(W, name, "O_RDONLY", m)
        create(mm) == LET c == sys_shm_create(W, name, "O_RDWR", mm)
                      IN  IF c = "ok"
                          THEN [ decision |-> DECISION_ALLOW, shm |-> TRUE ]
                          ELSE IF c = "EPERM"
                          THEN [ decision |-> DECISION_DENY, shm |-> mm ]
                          ELSE [ decision |-> DECISION_ERROR, shm |-> mm ]
    IN  IF o = "ok"
        THEN LET u == sys_shm_unlink(W, name, m)
             IN  IF u # "ok"
                 THEN IF u = "EACCES" \/ u = "EPERM"
                      THEN [ decision |-> DECISION_DENY, shm |-> m ]
                      ELSE [ decision |-> DECISION_ERROR, shm |-> m ]
                 ELSE create(FALSE)
        ELSE IF o = "EPERM" THEN [ decision |-> DECISION_ERROR, shm |-> m ]
        ELSE create(m)

\* sandbox_check_shm_write_unlink (posix_shm.c)
sandbox_check_shm_write_unlink(W, name, m) ==
    LET u == sys_shm_unlink(W, name, m)
    IN  IF u = "ok" THEN [ decision |-> DECISION_ALLOW, shm |-> FALSE ]
        ELSE IF u = "EPERM" THEN [ decision |-> DECISION_DENY, shm |-> m ]
        ELSE [ decision |-> DECISION_ERROR, shm |-> m ]

\* sandbox_check_perform(log) of matcher.cpp: the table lookup of
\* sandbox_check_perform, here with the shared memory probe as well.
matcher_sandbox_check_perform(W, log_entry, s, m) ==
    IF log_entry.operation = "ipc-posix-shm-read-data"
    THEN LET r == sandbox_check_shm_read_data(W, log_entry.argument, m, "none")
         IN  [ decision |-> r.decision, sem |-> s, shm |-> r.shm ]
    ELSE LET r == sandbox_check_perform(W, log_entry.operation,
                                        log_entry.argument, s)
         IN  [ decision |-> r.decision, sem |-> r.sem, shm |-> m ]

\* should_recheck (matcher.cpp)
should_recheck(log_entry) == log_entry.operation = "mach_register"

\* the lambda is_consistent of main
is_consistent(decision, log_entry) ==
    \/ decision = DECISION_ALLOW /\ log_entry.action = "allow"
    \/ decision = DECISION_DENY /\ log_entry.action = "deny"

\* main, line 207
is_allow_default(P) ==
    LET default_rule == get_default(P)
    IN  default_rule # NULL /\ default_rule[1].action = "allow"

RuleDShmCreate == [ action |-> "deny",
                    operations |-> << "ipc-posix-shm-write-create" >>,
                    filter |-> NoFilter ]
RuleAShm == [ action |-> "allow",
              operations |-> << "ipc-posix-shm-read-data",
                                "ipc-posix-shm-write-create" >>,
              filter |-> NoFilter ]

ToolRules == { RuleDD, RuleAD, RuleAS, RuleDShmCreate, RuleAShm }

ToolOperations ==
    { << "file-read-data", "/a" >>, << "mach-register", "svc" >>,
      << "ipc-posix-sem-create", "n" >>, << "ipc-posix-shm-read-data", "m" >>,
      << "bogus-operation", "x" >>, << "process-fork", "" >>,
      << "bogus-operation", "" >> }

ToolEvents == { Ev(o[1], o[2], a) : o \in ToolOperations, a \in { "allow", "deny" } }

\* The tool has read its input: a profile of at most two rules and the
\* processed logs.
InitTool ==
    /\ driver = "tool"
    /\ profile \in SeqsUpTo(ToolRules, 2)
    /\ log \in SeqsUpTo(ToolEvents, MaxEvents)
    /\ inputs = << >>
    /\ match_results = << >>
    /\ stray = NoStray
    /\ sem \in BOOLEAN
    /\ shm \in BOOLEAN
    /\ envFault = FALSE
    /\ runNo = 1
    /\ firstResult = << >>
    /\ pc = "main"
    /\ FreshProcess

ToolFrame ==
    UNCHANGED << psem, call, driver, profile, inputs, log, match_results, runNo,
                 firstResult, phase, wprofile, callok, decisions, consistent,
                 baselines, matching_rules, current_profile, rule_index,
                 last_results, temp, worker, raw, stray >>

\* sandbox_init_with_parameters succeeds: the tool is confined.
ToolInstall ==
    /\ pc = "main"
    /\ pc' = "loop"
    /\ UNCHANGED << sem, shm, tool, envFault, output >>
    /\ ToolFrame

\* sandbox_init_with_parameters fails: EXIT_FAILURE.
ToolInstallFail ==
    /\ pc = "main"
    /\ pc' = "failed"
    /\ envFault' = TRUE
    /\ UNCHANGED << sem, shm, tool, output >>
    /\ ToolFrame

\* Faulty variant: an undecided probe always yields unknown.
PerformedStatus_probe_only(decision, performed_decision, log_entry) ==
    IF performed_decision = DECISION_UNKNOWN THEN MATCH_UNKNOWN
    ELSE IF is_consistent(performed_decision, log_entry) THEN MATCH_CONSISTENT
    ELSE MATCH_INCONSISTENT

\* The match status of an iteration that performed the operation,
\* lines 253-261.
PerformedStatus(decision, performed_decision, log_entry) ==
    IF performed_decision = DECISION_UNKNOWN
    THEN IF decision = DECISION_UNKNOWN THEN MATCH_UNKNOWN
         ELSE IF is_consistent(decision, log_entry) THEN MATCH_CONSISTENT
         ELSE MATCH_INCONSISTENT
    ELSE IF is_consistent(performed_decision, log_entry) THEN MATCH_CONSISTENT
    ELSE MATCH_INCONSISTENT

\* One iteration of main's loop over the logs, lines 223-264.
ToolCheck ==
    /\ pc = "loop"
    /\ Len(tool.matches) < Len(log)
    /\ LET log_entry == log[Len(tool.matches) + 1]
           k == matcher_sandbox_check_custom(profile, log_entry,
                                             is_allow_default(profile))
           p == matcher_sandbox_check_perform(profile, log_entry, sem, shm)
           seen == [ tool EXCEPT !.decision = Append(tool.decision, k.decision),
                                 !.queries = Append(tool.queries, k.queries) ]
       IN  IF k.decision = DECISION_ERROR
           THEN /\ pc' = "failed"
                /\ tool' = [ seen EXCEPT !.performed_decision =
                                 Append(tool.performed_decision, NOT_PERFORMED) ]
                /\ UNCHANGED << sem, shm >>
           ELSE IF is_consistent(k.decision, log_entry) /\ ~should_recheck(log_entry)
           THEN /\ pc' = "loop"
                /\ tool' = [ seen EXCEPT
                               !.performed_decision =
                                   Append(tool.performed_decision, NOT_PERFORMED),
                               !.matches = Append(tool.matches, MATCH_CONSISTENT) ]
                /\ UNCHANGED << sem, shm >>
           ELSE /\ sem' = p.sem
                /\ shm' = p.shm
                /\ IF p.decision = DECISION_ERROR
                   THEN /\ pc' = "failed"
                        /\ tool' = [ seen EXCEPT !.performed_decision =
                                       Append(tool.performed_decision, p.decision) ]
                   ELSE /\ pc' = "loop"
                        /\ tool' = [ seen EXCEPT
                                       !.performed_decision =
                                           Append(tool.performed_decision, p.decision),
                                       !.matches =
                                           Append(tool.matches,
                                                  PerformedStatus(k.decision,
                                                                  p.decision,
                                                                  log_entry)) ]
    /\ UNCHANGED << envFault, output >>
    /\ ToolFrame

\* main, lines 266-286: the result array is printed.
ToolOutput ==
    /\ pc = "loop"
    /\ Len(tool.matches) = Len(log)
    /\ output' = [ i \in 1..Len(tool.matches) |->
                     IF tool.matches[i] = MATCH_CONSISTENT THEN "true"
                     ELSE IF tool.matches[i] = MATCH_INCONSISTENT THEN "false"
                     ELSE "null" ]
    /\ pc' = "done"
    /\ UNCHANGED << sem, shm, tool, envFault >>
    /\ ToolFrame

NextTool ==
    \/ ToolInstall
    \/ ToolInstallFail
    \/ ToolCheck
    \/ ToolOutput

SpecTool == InitTool /\ [][NextTool]_vars

-----------------------------------------------------------------------------
(* Evaluation under an allow-default policy *)

\* C22: in the attribution tool's worker an event with a non-empty argument
\* and an unknown filter type, evaluated under a policy whose default rule
\* allows, is stored as decision unknown.
C22_UnknownUnderDefaultAllow ==
    (driver = "matcher" /\ worker.st = "probe") =>
        \A k \in 1..Len(raw) :
            ( /\ inputs[k].argument # ""
              /\ sandbox_filter_type_for_op(inputs[k].operation) = "unknown"
              /\ is_allow_default(worker.policy) )
            => raw[k] = DECISION_UNKNOWN

-----------------------------------------------------------------------------
(* The consistency tool's decisions *)

\* C23: whenever a sandbox_check query issued for an event returns a value
\* other than 0 and 1, the decision for the event is error, on the
\* nine-filter path as on the others.
C23_FailedQueryIsError ==
    driver = "tool" =>
        \A k \in 1..Len(tool.decision) :
            (\E j \in 1..Len(tool.queries[k]) : tool.queries[k][j] \notin { 0, 1 })
            => tool.decision[k] = DECISION_ERROR

\* C24: every mach-register event the consistency tool has processed was
\* performed with the active probe.
C24_MachRegisterRechecked ==
    driver = "tool" =>
        \A k \in 1..Len(tool.performed_decision) :
            (log[k].operation = "mach-register"
             /\ tool.decision[k] # DECISION_ERROR)
            => tool.performed_decision[k] # NOT_PERFORMED

\* A decision agrees with the logged action of an event.
Agrees(d, e) ==
    /\ d \in { DECISION_ALLOW, DECISION_DENY }
    /\ (d = DECISION_ALLOW) <=> (e.action = "allow")

Verdict(b) == IF b THEN "true" ELSE "false"

\* The value of an event whose kernel-query decision is kd and on which the
\* active probe returns pd.
FusedValue(kd, pd, e) ==
    IF Agrees(kd, e) /\ e.operation # "mach-register" THEN "true"
    ELSE IF pd \in { DECISION_ALLOW, DECISION_DENY } THEN Verdict(Agrees(pd, e))
    ELSE IF kd = DECISION_UNKNOWN THEN "null"
    ELSE Verdict(Agrees(kd, e))

ValueOf(status) ==
    IF status = MATCH_CONSISTENT THEN "true"
    ELSE IF status = MATCH_INCONSISTENT THEN "false"
    ELSE "null"

Decided == { DECISION_ALLOW, DECISION_DENY, DECISION_UNKNOWN }

\* One iteration of the consistency tool's loop gives the event its fused
\* value, and does not perform the operation when the kernel query agrees
\* and the operation is not mach-register.
C25_FusionStep ==
    (driver = "tool" /\ pc = "loop" /\ tool' # tool) =>
        LET e == log[Len(tool.matches) + 1]
            kd == matcher_sandbox_check_custom(profile, e,
                                               is_allow_default(profile)).decision
            pd == matcher_sandbox_check_perform(profile, e, sem, shm).decision
            unprobed == Agrees(kd, e) /\ e.operation # "mach-register"
        IN  (kd \in Decided /\ (unprobed \/ pd \in Decided)) =>
                /\ pc' = "loop"
                /\ Len(tool'.matches) = Len(tool.matches) + 1
                /\ ValueOf(tool'.matches[Len(tool'.matches)]) = FusedValue(kd, pd, e)
                /\ unprobed =>
                       /\ tool'.performed_decision[Len(tool'.matches)] = NOT_PERFORMED
                       /\ sem' = sem /\ shm' = shm

\* C25: when no evaluator returns error the consistency tool emits one value
\* per event, in the order of the events: true when the kernel query agrees
\* with the logged action and the operation is not mach-register (the probe
\* is then not executed), otherwise the probe's allow or deny compared with
\* the logged action, and when the probe returns unknown, null if the kernel
\* decision is unknown too and the kernel comparison if not.
C25_DecisionFusion ==
    /\ [][C25_FusionStep]_vars
    /\ [](driver = "tool" /\ pc = "done" =>
            /\ Len(output) = Len(log)
            /\ \A i \in 1..Len(log) : output[i] = ValueOf(tool.matches[i]))

\* Two events have been emitted: a null for a shared memory object that
\* neither evaluator could decide, and a value decided by the probe.
C25_Witness ==
    /\ driver = "tool" /\ pc = "done" /\ Len(output) = 2
    /\ \E i, j \in 1..2 :
        /\ output[i] = "null"
        /\ tool.decision[i] = DECISION_UNKNOWN
        /\ tool.performed_decision[i] = DECISION_UNKNOWN
        /\ tool.performed_decision[j] \in { DECISION_ALLOW, DECISION_DENY }
        /\ output[j] = Verdict(Agrees(tool.performed_decision[j], log[j]))

\* C26: an event whose active probe could not decide (it returned error) is
\* given the value unknown, and the tool goes on with the remaining events.
C26_UndecidedProbeIsUnknown ==
    driver = "tool" =>
        \A k \in 1..Len(tool.performed_decision) :
            tool.performed_decision[k] = DECISION_ERROR =>
                /\ pc # "failed"
                /\ Len(tool.matches) >= k
                /\ tool.matches[k] = MATCH_UNKNOWN

-----------------------------------------------------------------------------
(* The rule set helpers called on their own (ruleset_helpers.cpp).  call   *)
(* holds the arguments of the last call and what it returned; a call whose *)
(* assertion fails aborts the process and returns nothing.                 *)

\* No program is running: only the caller of a helper exists.
OnlyCaller ==
    /\ inputs = << >>
    /\ log = << >>
    /\ match_results = << >>
    /\ stray = NoStray
    /\ envFault = FALSE
    /\ runNo = 1
    /\ firstResult = << >>
    /\ pc = "caller"
    /\ phase = "none"
    /\ wprofile = << >>
    /\ callok = FALSE
    /\ decisions = << >>
    /\ consistent = NULL
    /\ baselines = << >>
    /\ matching_rules = << >>
    /\ current_profile = << >>
    /\ rule_index = 0
    /\ last_results = << >>
    /\ temp = << >>
    /\ worker = NoWorker
    /\ raw = << >>
    /\ tool = NoTool
    /\ output = << >>

CallFrame ==
    UNCHANGED << shm, tool, driver, profile, inputs, log, match_results,
                 envFault, runNo, firstResult, phase, wprofile, callok,
                 decisions, consistent, baselines, matching_rules,
                 current_profile, rule_index, last_results, temp, worker, raw,
                 stray, output >>

\* Faulty variant: an existing default rule is left as it is.
set_default_keep(rulebase, action) ==
    IF \E k \in 1..Len(rulebase) : HasDefaultOp(rulebase[k])
    THEN rulebase
    ELSE << [ action |-> action, operations |-> << "default" >>,
              filter |-> NoFilter ] >> \o rulebase

\* ruleset::set_default, for an action that passes its assertion.  The new
\* rule has the two keys action and operations, that is, no filter.
set_default(rulebase, action) ==
    LET ds == { k \in 1..Len(rulebase) : HasDefaultOp(rulebase[k]) }
    IN  IF ds # {}
        THEN [ rulebase EXCEPT ![Min(ds)].action = action ]
        ELSE << [ action |-> action, operations |-> << "default" >>,
                  filter |-> NoFilter ] >> \o rulebase

RuleMixed == [ action |-> "deny",
               operations |-> << "file-read-data", "default" >>,
               filter |-> NoFilter ]

HelperRules == { RuleDD, RuleAD, RuleAR, RuleMixed }

SetDefaultActions == { "allow", "deny", "permit" }

\* A caller holds a rule base, possibly empty.
InitRuleset ==
    /\ driver = "ruleset"
    /\ profile \in { << >> } \cup SeqsUpTo(HelperRules, MaxRules)
    /\ sem = FALSE
    /\ call = NoCall
    /\ psem = NoPsem
    /\ shm = FALSE
    /\ OnlyCaller

\* The caller calls remove_last_rule on its rule base.
RemoveLastCall ==
    /\ driver = "ruleset"
    /\ pc = "caller"
    /\ IF Len(profile) > 0
       THEN /\ LET r == remove_last_rule(profile)
               IN  call' = [ NoCall EXCEPT !.fn = "remove_last_rule",
                                           !.rulebase = profile,
                                           !.result = r.result,
                                           !.last_rule_idx = r.last_rule_idx,
                                           !.last_rule = << r.last_rule >> ]
            /\ pc' = "caller"
       ELSE /\ call' = [ NoCall EXCEPT !.fn = "remove_last_rule",
                                       !.rulebase = profile,
                                       !.aborted = TRUE ]
            /\ pc' = "aborted"
    /\ UNCHANGED << sem, psem >>
    /\ CallFrame

\* The caller calls set_default, on its rule base or on what the previous
\* call of set_default returned.
SetDefaultCall ==
    /\ driver = "ruleset"
    /\ pc = "caller"
    /\ \E action \in SetDefaultActions, again \in BOOLEAN :
        /\ again => (call.fn = "set_default" /\ ~call.again)
        /\ LET rulebase == IF again THEN call.result ELSE profile
           IN  IF action = "allow" \/ action = "deny"
               THEN /\ call' = [ NoCall EXCEPT
                                   !.fn = "set_default",
                                   !.rulebase = rulebase,
                                   !.action = action,
                                   !.again = again,
                                   !.result = set_default(rulebase, action) ]
                    /\ pc' = "caller"
               ELSE /\ call' = [ NoCall EXCEPT !.fn = "set_default",
                                               !.rulebase = rulebase,
                                               !.action = action,
                                               !.again = again,
                                               !.aborted = TRUE ]
                    /\ pc' = "aborted"
    /\ UNCHANGED << sem, psem >>
    /\ CallFrame

NextRuleset ==
    \/ RemoveLastCall
    \/ SetDefaultCall

SpecRuleset == InitRuleset /\ [][NextRuleset]_vars

\* C27: remove_last_rule on a non-empty rule base returns the rule base
\* without its last rule, that rule, and the index of that rule, and leaves
\* the rule base of the caller as it was; on an empty rule base it aborts
\* and returns nothing.
C27_RemoveLast ==
    /\ [](call.fn = "remove_last_rule" =>
            LET S == call.rulebase
            IN  IF Len(S) = 0
                THEN call.aborted /\ pc = "aborted" /\ call.result = << >>
                     /\ call.last_rule = << >>
                ELSE /\ ~call.aborted
                     /\ Len(call.result) = Len(S) - 1
                     /\ \A k \in 1..Len(S) - 1 : call.result[k] = S[k]
                     /\ call.last_rule = << S[Len(S)] >>
                     /\ call.last_rule_idx = Len(S) - 1)
    /\ [][driver = "ruleset" => profile' = profile]_vars

C27_Witness ==
    /\ call.fn = "remove_last_rule" /\ ~call.aborted
    /\ Len(call.rulebase) = 3 /\ profile = call.rulebase
    /\ call.rulebase[3] = call.rulebase[1]
    /\ call.last_rule_idx = 2

C27_WitnessAbort ==
    call.fn = "remove_last_rule" /\ call.aborted /\ profile = << >>

\* C28: set_default(S, a) on a rule base with a default rule returns a rule
\* base of the same length that differs from S only in the action of the
\* first default rule, which is a; on a rule base without one it returns the
\* new rule {action a, operations ["default"]} followed by the rules of S.
\* get_default of the result has action a, and applying set_default with
\* the same a to the result returns the result.
C28_SetDefault ==
    (call.fn = "set_default" /\ ~call.aborted) =>
        LET S == call.rulebase
            a == call.action
            R == call.result
            d == FirstDefault(S)
        IN  /\ IF d # 0
               THEN /\ Len(R) = Len(S)
                    /\ \A k \in 1..Len(S) : k # d => R[k] = S[k]
                    /\ R[d].action = a
                    /\ R[d].operations = S[d].operations
                    /\ R[d].filter = S[d].filter
               ELSE /\ Len(R) = Len(S) + 1
                    /\ R[1].action = a
                    /\ R[1].operations = << "default" >>
                    /\ R[1].filter = NoFilter
                    /\ \A k \in 1..Len(S) : R[k + 1] = S[k]
            /\ get_default(R) # NULL
            /\ get_default(R)[1].action = a
            /\ set_default(R, a) = R
            /\ (call.again /\ FirstDefault(S) # 0 /\ S[FirstDefault(S)].action = a)
                   => R = S

\* set_default has been applied a second time, with the same action, to
\* what it returned for a rule base whose first default rule had the other
\* action and was not its first rule.
C28_Witness ==
    /\ call.fn = "set_default" /\ call.again /\ call.action = "allow"
    /\ call.result = call.rulebase
    /\ Len(profile) = 3
    /\ FirstDefault(profile) = 2
    /\ profile[2].action = "deny"
    /\ call.result[2].action = "allow"
    /\ HasDefaultOp(profile[3])

C28_WitnessPrepend ==
    /\ call.fn = "set_default" /\ ~call.again /\ call.rulebase = profile
    /\ FirstDefault(profile) = 0 /\ Len(profile) = 2
    /\ Len(call.result) = 3

-----------------------------------------------------------------------------
(* sbpl::relevant_operations (sbpl_helpers.cpp).  The operation table is   *)
(* data of the platform: entry idx has a node type and the index of its    *)
(* fallback operation.  Names and indices correspond one to one, so a name *)
(* is written as its index.                                                *)

NumOps == 3

OperationTables ==
    [ 0..NumOps - 1 -> [ terminal : BOOLEAN, fallback_op : 0..NumOps - 1 ] ]

RECURSIVE FallbackWalk(_, _, _)
\* the while (true) loop: op_info is the entry at idx
FallbackWalk(table, idx, result) ==
    LET op_name == table[idx].fallback_op
    IN  IF op_name \in result THEN result
        ELSE FallbackWalk(table, op_name, result \cup { op_name })

relevant_operations(table, op) ==
    IF table[op].terminal THEN { op }
    ELSE FallbackWalk(table, op, { op })

\* A caller is about to ask for the operations relevant to op.
InitOperations ==
    /\ driver = "operations"
    /\ profile = << >>
    /\ sem = FALSE
    /\ \E table \in OperationTables, op \in 0..NumOps - 1 :
           call = [ NoCall EXCEPT !.fn = "pending", !.table = table, !.op = op ]
    /\ psem = NoPsem
    /\ shm = FALSE
    /\ OnlyCaller

RelevantOperationsCall ==
    /\ driver = "operations"
    /\ call.fn = "pending"
    /\ call' = [ call EXCEPT !.fn = "relevant_operations",
                             !.result = relevant_operations(call.table, call.op) ]
    /\ UNCHANGED << sem, psem, pc >>
    /\ CallFrame

NextOperations == RelevantOperationsCall

SpecOperations == InitOperations /\ [][NextOperations]_vars

RECURSIVE ChainToTerminal(_, _, _)
\* op's fallback chain from idx on, up to the first revisited name or up to
\* and including the first terminal node
ChainToTerminal(table, idx, result) ==
    LET next == table[idx].fallback_op
    IN  IF next \in result THEN result
        ELSE IF table[next].terminal THEN result \cup { next }
        ELSE ChainToTerminal(table, next, result \cup { next })

\* C29: relevant_operations(op) returns {op} for a terminal op and otherwise
\* op with the names on its fallback chain up to the first revisited name or
\* up to and including the first terminal node reached.
C29_ChainStopsAtTerminal ==
    call.fn = "relevant_operations" =>
        call.result = IF call.table[call.op].terminal THEN { call.op }
                      ELSE ChainToTerminal(call.table, call.op, { call.op })

-----------------------------------------------------------------------------
(* The ipc-posix-sem-create probe called on its own, in a process confined *)
(* by profile, as tests/posix_sem_test.c does.                             *)

RuleAOU == [ action |-> "allow",
             operations |-> << "ipc-posix-sem-open", "ipc-posix-sem-unlink" >>,
             filter |-> NoFilter ]

ProbeRules == RematcherRules \cup { RuleAOU }

\* A confined process; the semaphore exists or not.
InitSemCreate ==
    /\ driver = "probe"
    /\ profile \in SeqsUpTo(ProbeRules, MaxRules)
    /\ sem \in BOOLEAN
    /\ call = NoCall
    /\ psem = NoPsem
    /\ shm = FALSE
    /\ OnlyCaller

\* sandbox_check_perform(0, "ipc-posix-sem-create", 0, "n")
SemCreateCall ==
    /\ driver = "probe"
    /\ LET r == sandbox_check_perform(profile, "ipc-posix-sem-create", "n", sem)
       IN  /\ call' = [ NoCall EXCEPT !.fn = "sandbox_check_sem_create",
                                      !.name = "n",
                                      !.existed = sem,
                                      !.decision = r.decision ]
           /\ sem' = r.sem
    /\ UNCHANGED << psem, pc >>
    /\ CallFrame

NextSemCreate == SemCreateCall

SpecSemCreate == InitSemCreate /\ [][NextSemCreate]_vars

\* C30: the ipc-posix-sem-create probe returns error when the semaphore
\* exists and the sandbox forbids opening it or unlinking it; it returns
\* allow only after the creating sem_open has succeeded, and deny only when
\* the creating sem_open has failed with EPERM.
C30_SemCreateDecision ==
    call.fn = "sandbox_check_sem_create" =>
        LET s == call.existed
            opened == sys_sem_open(profile, call.name, s)
            unlinked == sys_sem_unlink(profile, call.name, s)
            blocked == s /\ (opened = "EPERM" \/ unlinked = "EPERM")
            creating == sys_sem_create(profile, call.name, FALSE)
        IN  /\ blocked => call.decision = DECISION_ERROR
            /\ call.decision = DECISION_ALLOW =>
                   (~blocked /\ creating = "ok" /\ sem)
            /\ call.decision = DECISION_DENY =>
                   (~blocked /\ creating = "EPERM" /\ ~sem)
            /\ call.decision \in { DECISION_ALLOW, DECISION_DENY, DECISION_ERROR }

\* The probe has returned error because the existing semaphore may be
\* opened but not unlinked.
C30_Witness ==
    /\ call.fn = "sandbox_check_sem_create"
    /\ call.existed /\ sem
    /\ sys_sem_open(profile, call.name, TRUE) = "ok"
    /\ sys_sem_unlink(profile, call.name, TRUE) = "EPERM"
    /\ call.decision = DECISION_ERROR

C30_WitnessDeny ==
    /\ call.fn = "sandbox_check_sem_create"
    /\ call.existed /\ ~sem
    /\ call.decision = DECISION_DENY

C30_WitnessAllow ==
    /\ call.fn = "sandbox_check_sem_create"
    /\ call.existed /\ sem
    /\ call.decision = DECISION_ALLOW

-----------------------------------------------------------------------------
(* The shared memory probes called on their own in a process confined by   *)
(* profile, as tests/posix_shm_test.c does.  The system holds at most one  *)
(* named shared memory object.                                             *)

RuleAShmData == [ action |-> "allow",
                  operations |-> << "ipc-posix-shm-write-data",
                                    "ipc-posix-shm-write-unlink" >>,
                  filter |-> NoFilter ]

ShmRules == { RuleDD, RuleAD, RuleAShm, RuleDShmCreate, RuleAShmData }

ShmProbes ==
    { "ipc-posix-shm-write-create", "ipc-posix-shm-write-data",
      "ipc-posix-shm-write-unlink", "ipc-posix-shm-read-data" }

\* A confined process; the object exists or not.
InitShm ==
    /\ driver = "shm"
    /\ profile \in SeqsUpTo(ShmRules, MaxRules)
    /\ sem = FALSE
    /\ psem = NoPsem
    /\ call = NoCall
    /\ shm \in BOOLEAN
    /\ OnlyCaller

ProbeFrame ==
    UNCHANGED << tool, driver, profile, inputs, log, match_results,
                 envFault, runNo, firstResult, pc, phase, wprofile, callok,
                 decisions, consistent, baselines, matching_rules,
                 current_profile, rule_index, last_results, temp, worker, raw,
                 stray, output >>

\* sandbox_check_perform(0, op, 0, "m") for one of the shared memory probes;
\* the system may make the probe's first shm_open fail.
ShmProbeCall ==
    /\ driver = "shm"
    /\ \E op \in ShmProbes, fault \in ShmFaults :
        /\ op = "ipc-posix-shm-write-unlink" => fault = "none"
        /\ fault = "EACCES" => shm
        /\ LET r == IF op = "ipc-posix-shm-write-create"
                    THEN sandbox_check_shm_write_create(profile, "m", shm, fault)
                    ELSE IF op = "ipc-posix-shm-write-data"
                    THEN sandbox_check_shm_write_data(profile, "m", shm, fault)
                    ELSE IF op = "ipc-posix-shm-write-unlink"
                    THEN sandbox_check_shm_write_unlink(profile, "m", shm)
                    ELSE sandbox_check_shm_read_data(profile, "m", shm, fault)
           IN  /\ call' = [ NoCall EXCEPT !.fn = op,
                                          !.name = "m",
                                          !.existed = shm,
                                          !.fault = fault,
                                          !.decision = r.decision ]
               /\ shm' = r.shm
    /\ UNCHANGED << sem, psem >>
    /\ ProbeFrame

NextShm == ShmProbeCall

SpecShm == InitShm /\ [][NextShm]_vars

\* C31: the ipc-posix-shm-write-create probe returns error whenever the
\* object exists and the sandbox forbids opening it or unlinking it.
C31_ShmCreateBlockedIsError ==
    (call.fn = "ipc-posix-shm-write-create" /\ call.fault = "none"
     /\ call.existed
     /\ \/ sys_shm_open(profile, call.name, "O_RDONLY", TRUE) = "EPERM"
        \/ sys_shm_unlink(profile, call.name, TRUE) = "EPERM")
    => call.decision = DECISION_ERROR

\* C33: the ipc-posix-shm-read-data and ipc-posix-shm-write-data probes
\* return allow only if an shm_open on the object has succeeded; an shm_open
\* that fails with EPERM gives deny, and one that fails with an errno other
\* than EPERM and ENOENT gives error or unknown.
C33_ShmOpenDecision ==
    call.fn \in { "ipc-posix-shm-read-data", "ipc-posix-shm-write-data" } =>
        LET oflags == IF call.fn = "ipc-posix-shm-read-data" THEN "O_RDONLY"
                      ELSE "O_RDWR"
            o == IF call.fault # "none" THEN call.fault
                 ELSE sys_shm_open(profile, call.name, oflags, call.existed)
            created == o = "ENOENT"
                       /\ sys_shm_create(profile, call.name, oflags,
                                         call.existed) = "ok"
        IN  /\ call.decision = DECISION_ALLOW => (o = "ok" \/ created)
            /\ o = "EPERM" => call.decision = DECISION_DENY
            /\ o \notin { "ok", "EPERM", "ENOENT" } =>
                   call.decision \in { DECISION_ERROR, DECISION_UNKNOWN }

-----------------------------------------------------------------------------
(* The semaphore probes called one after another in one confined process,  *)
(* as tests/posix_sem_test.c does.  A handle returned by sem_open occupies *)
(* an entry of the process's descriptor table until sem_close; sem_open    *)
(* fails with EMFILE when the table is full.                               *)

\* Entries of the descriptor table available to semaphore handles.
MaxHandles == 3

\* sem_open(name, 0) in a process holding the handles of ps
sys_sem_open_h(W, name, s, ps) ==
    IF ps.handles >= MaxHandles THEN "EMFILE" ELSE sys_sem_open(W, name, s)

\* sandbox_check_sem_create (posix_sem.c) in a process holding the handles
\* of ps: the handle of an existing semaphore is not closed, the handle of
\* the created one is.
sem_create_probe(W, name, s, ps) ==
    LET o == sys_sem_open_h(W, name, s, ps)
        held == IF o = "ok" THEN [ ps EXCEPT !.handles = ps.handles + 1 ] ELSE ps
        tail(ss) ==
            IF held.handles >= MaxHandles
            THEN [ decision |-> DECISION_ERROR, sem |-> ss, psem |-> held ]
            ELSE LET r == sem_create_tail(W, name, ss)
                 IN  [ decision |-> r.decision, sem |-> r.sem,
                       psem |-> IF r.decision = 0 /\ ~ss
                                THEN [ held EXCEPT !.value = 1 ] ELSE held ]
    IN  IF o = "ok"
        THEN IF sys_sem_unlink(W, name, s) # "ok"
             THEN [ decision |-> DECISION_ERROR, sem |-> s, psem |-> held ]
             ELSE tail(FALSE)
        ELSE IF o = "EPERM"
        THEN [ decision |-> DECISION_ERROR, sem |-> s, psem |-> held ]
        ELSE tail(s)

\* sandbox_check_sem_post (posix_sem.c): sem_open, sem_post, no sem_close
sandbox_check_sem_post(W, name, s, ps) ==
    LET o == sys_sem_open_h(W, name, s, ps)
        held == [ ps EXCEPT !.handles = ps.handles + 1 ]
    IN  IF o # "ok"
        THEN [ decision |-> DECISION_ERROR, sem |-> s, psem |-> ps ]
        ELSE IF SemAllowed(W, "ipc-posix-sem-post", name)
        THEN [ decision |-> DECISION_ALLOW, sem |-> s,
               psem |-> [ held EXCEPT !.value = ps.value + 1 ] ]
        ELSE [ decision |-> DECISION_DENY, sem |-> s, psem |-> held ]

\* sandbox_check_sem_wait (posix_sem.c): sem_open, sem_trywait, no
\* sem_close.  sem_trywait returns at once: it takes one from a positive
\* value and fails with EAGAIN on the value 0.
sandbox_check_sem_wait(W, name, s, ps) ==
    LET o == sys_sem_open_h(W, name, s, ps)
        held == [ ps EXCEPT !.handles = ps.handles + 1 ]
    IN  IF o # "ok"
        THEN [ decision |-> DECISION_ERROR, sem |-> s, psem |-> ps ]
        ELSE IF ~SemAllowed(W, "ipc-posix-sem-wait", name)
        THEN [ decision |-> DECISION_DENY, sem |-> s, psem |-> held ]
        ELSE IF ps.value > 0
        THEN [ decision |-> DECISION_ALLOW, sem |-> s,
               psem |-> [ held EXCEPT !.value = ps.value - 1 ] ]
        ELSE [ decision |-> DECISION_ALLOW, sem |-> s, psem |-> held ]

RuleASemAll == [ action |-> "allow",
                 operations |-> << "ipc-posix-sem-create", "ipc-posix-sem-open",
                                   "ipc-posix-sem-post", "ipc-posix-sem-wait",
                                   "ipc-posix-sem-unlink" >>,
                 filter |-> << "ipc-posix-name", "n" >> ]

SemRules == { RuleDD, RuleASemAll, RuleAS }

SemProbes ==
    { "ipc-posix-sem-create", "ipc-posix-sem-post", "ipc-posix-sem-wait",
      "ipc-posix-sem-unlink" }

\* A confined process without handles; the semaphore exists, with the value
\* 0 or 1, or not.
InitSem ==
    /\ driver = "sem"
    /\ profile \in SeqsUpTo(SemRules, MaxRules)
    /\ sem \in BOOLEAN
    /\ psem \in { [ value |-> v, handles |-> 0 ] : v \in 0..1 }
    /\ ~sem => psem.value = 0
    /\ shm = FALSE
    /\ call = NoCall
    /\ OnlyCaller

\* sandbox_check_perform(0, op, 0, "n") for one of the semaphore probes
SemProbeCall ==
    /\ driver = "sem"
    /\ \E op \in SemProbes :
        LET u == sandbox_check_sem_unlink(profile, "n", sem)
            r == IF op = "ipc-posix-sem-create"
                 THEN sem_create_probe(profile, "n", sem, psem)
                 ELSE IF op = "ipc-posix-sem-post"
                 THEN sandbox_check_sem_post(profile, "n", sem, psem)
                 ELSE IF op = "ipc-posix-sem-wait"
                 THEN sandbox_check_sem_wait(profile, "n", sem, psem)
                 ELSE [ decision |-> u.decision, sem |-> u.sem, psem |-> psem ]
        IN  /\ call' = [ NoCall EXCEPT
                           !.fn = op,
                           !.name = "n",
                           !.existed = sem,
                           !.decision = r.decision,
                           !.was_primed = call.primed,
                           !.primed = IF op = "ipc-posix-sem-create" THEN TRUE
                                      ELSE IF op = "ipc-posix-sem-unlink"
                                      THEN FALSE ELSE call.primed ]
            /\ sem' = r.sem
            /\ psem' = r.psem
    /\ UNCHANGED shm
    /\ ProbeFrame

NextSem == SemProbeCall

SpecSem == InitSem /\ [][NextSem]_vars

\* The sandbox permits every ipc-posix-sem operation on the name.
AllSemPermitted(W, name) ==
    \A op \in { "ipc-posix-sem-create", "ipc-posix-sem-open",
                "ipc-posix-sem-post", "ipc-posix-sem-wait",
                "ipc-posix-sem-unlink" } : SemAllowed(W, op, name)

\* C32: on a name for which the sandbox permits every ipc-posix-sem
\* operation, every create, wait and post probe made after a create probe,
\* and the unlink probe made after them, returns allow.
C32_ProbesAllowAfterCreate ==
    (call.fn \in SemProbes /\ call.was_primed
     /\ AllSemPermitted(profile, call.name))
    => call.decision = DECISION_ALLOW

-----------------------------------------------------------------------------
(* What the probes leave behind *)

\* C34: every resource an active probe creates is gone when the probe
\* returns; in particular no child forked by the signal probe is alive, asleep
\* or running the worker's loop, once the probe has returned.
C34_ProbeLeavesNothing ==
    driver = "rematcher" => stray.st = "none"

-----------------------------------------------------------------------------
(* The shrink loop of the matcher, match_rules.cpp 653-685 *)

\* The prefixes P[0..k), k in 0..N-1, on which the oracle decides event i
\* differently from the baseline.
DifferingPrefixes(i) ==
    { k \in 0..(N - 1) :
        WorkerDecision(Prefix(profile, k), inputs[i]) # baselines[i] }

\* C35: when the shrink loop has ended, the match of every consistent event
\* is the largest k in [0, N) whose prefix P[0..k) the oracle decides
\* differently from the baseline, or RULE_UNMATCHED when no prefix differs;
\* and a match that has been set is not changed by a later iteration.
C35_MatchIsLargestDifferingPrefix ==
    /\ [](pc = "fixup"
          => \A i \in Events :
               consistent[i] = SANDBOX_CONSISTENT
               => matching_rules[i] =
                    IF DifferingPrefixes(i) = {} THEN RULE_UNMATCHED
                    ELSE Max(DifferingPrefixes(i)))
    /\ [][(pc = "ret" /\ phase = "shrink" /\ pc' \in { "shrink", "fixup" })
          => \A i \in Events :
               matching_rules[i] # RULE_UNMATCHED
               => matching_rules'[i] = matching_rules[i]]_vars

\* The loop has ended with a consistent event matched to the larger of two
\* differing prefixes.
C35_Witness ==
    /\ pc = "fixup"
    /\ \E i \in Events :
         /\ consistent[i] = SANDBOX_CONSISTENT
         /\ Cardinality(DifferingPrefixes(i)) > 1
         /\ matching_rules[i] = Max(DifferingPrefixes(i))

\* The loop has ended with a consistent event that no prefix decides
\* differently: it is still unmatched.
C35_WitnessUnmatched ==
    /\ pc = "fixup"
    /\ N > 0
    /\ \E i \in Events :
         /\ consistent[i] = SANDBOX_CONSISTENT
         /\ DifferingPrefixes(i) = {}
         /\ matching_rules[i] = RULE_UNMATCHED

\* The loop of lines 658-685 is running: from its first remove_last_rule to
\* the test that leaves it.
InShrinkLoop ==
    \/ pc = "shrink"
    \/ phase = "shrink" /\ pc \in { "fork", "wait", "ret" }

\* A worker has ended otherwise than by exit(0).
WorkerDied == worker.st \in { "exit1", "signaled" } \/ pc = "crashed"

\* The matcher, with every process that can take a step eventually taking
\* one: the parent is a sequential program blocked only in waitpid, the
\* worker is a runnable process the scheduler does not starve.
SpecFair == Init /\ [][Next]_vars /\ WF_vars(Next)

\* C36: with N >= 1 rules and workers that exit, the shrink loop ends after
\* exactly N iterations.  The loop is entered with the working set P; each
\* iteration finds the working set non-empty, removes exactly its last rule
\* and has the oracle evaluated once, on that shorter prefix; the working set
\* is always a prefix of P; the loop is left exactly when the working set is
\* empty, and it is left eventually unless a worker dies.
C36_ShrinkLoopRunsNTimes ==
    /\ [](InShrinkLoop => current_profile = Prefix(profile, Len(current_profile)))
    /\ [](pc = "shrink" => Len(current_profile) >= 1)
    /\ []((phase = "shrink" /\ pc \in { "fork", "wait" })
          => wprofile = current_profile)
    /\ [][(pc = "ret" /\ phase = "baseline" /\ pc' = "shrink")
          => current_profile' = profile]_vars
    /\ [][pc = "shrink"
          => /\ pc' = "fork"
             /\ current_profile' = Prefix(profile, Len(current_profile) - 1)
             /\ wprofile' = current_profile']_vars
    /\ [][(phase = "shrink" /\ pc = "fork") => pc' = "wait"]_vars
    /\ [][(phase = "shrink" /\ pc = "wait")
          => pc' \in { "wait", "ret", "crashed" }]_vars
    /\ [][(pc = "ret" /\ phase = "shrink" /\ pc' # "crashed")
          => /\ current_profile' = current_profile
             /\ pc' = IF Len(current_profile) = 0 THEN "fixup" ELSE "shrink"]_vars
    /\ (pc = "shrink" /\ current_profile = profile)
         ~> (pc = "fixup" \/ WorkerDied)

\* The loop has ended after its N-th evaluation, the one on the empty
\* policy, for a policy of more than one rule.
C36_Witness ==
    /\ pc = "fixup"
    /\ N > 1
    /\ current_profile = << >>
    /\ wprofile = << >>

-----------------------------------------------------------------------------
(* The worker's loop, match_rules.cpp 567-598 and                          *)
(* rematch_inconsistent.cpp 150-181                                        *)

\* The byte the worker stores for what its evaluator returned: the matcher
\* stores the value itself, the rematcher has made it 0 or 1 before.
StoredFor(status) ==
    IF driver = "matcher" THEN status
    ELSE IF status # 0 THEN 1 ELSE 0

\* C37: a worker probes the events in increasing index order, each once, and
\* stores the decision for events[i] at position i of the buffer and nowhere
\* else: while it runs, the entries below its index hold the decisions it
\* got, in order, and the others the pre-fill byte; and the array a
\* successful call returns holds at i the decision the worker got for
\* events[i].
C37_InOrderEachOnce ==
    /\ worker.st = "probe"
       => /\ Len(raw) = worker.i - 1
          /\ \A k \in Events :
               temp[k] = IF k < worker.i THEN StoredFor(raw[k]) ELSE SENTINEL
    /\ (pc = "ret" /\ callok)
       => \A i \in Events : Returned[i] = StoredFor(raw[i])

-----------------------------------------------------------------------------
(* The two batch calls on P at the head of sandbox_bulk_find_matching_rule, *)
(* match_rules.cpp 644-648 and rematch_inconsistent.cpp 226-230            *)

\* Event i counts as baseline-consistent: SANDBOX_CONSISTENT in the matcher,
\* true in the rematcher.
FlaggedConsistent(i) ==
    IF driver = "matcher" THEN consistent[i] = SANDBOX_CONSISTENT
    ELSE consistent[i] = TRUE

\* C38: the consistency flags and the baselines the shrink loop compares with
\* describe the same decisions: once both exist, a consistent event has
\* baseline allow exactly when its logged action is allow.
C38_FlagsAndBaselinesAgree ==
    (consistent # NULL /\ Len(baselines) = M)
    => \A i \in Events :
         FlaggedConsistent(i)
         => (baselines[i] = DECISION_ALLOW <=> inputs[i].action = "allow")

-----------------------------------------------------------------------------
\* C39: the sanity assertion of the rematcher (rematch_inconsistent.cpp
\* 292-295) never fails: when the fix-up has run, an event is consistent
\* exactly when it has a matching rule.
C39_SanityAssertionHolds ==
    (driver = "rematcher" /\ pc = "fixup" /\ get_default(profile) # NULL)
    => SanityCheck(consistent,
                   RecheckFixupMatches(profile, inputs, consistent,
                                       matching_rules))

====
